---- MODULE Spec2Model ----
(***************************************************************************)
(* A model of the lightnode transaction pipeline:                          *)
(*   - the resolver's txChecker workers (verify, checkDuplicate, respond), *)
(*   - the chain watcher and the goroutine of EthBurnLogFetcher,           *)
(*   - the submitter (poll loop, bounded channel, consumer).               *)
(***************************************************************************)
EXTENDS Integers, Sequences, FiniteSets, TLC

\* ------------------------------------------------------------------ bounds

\* Number of txChecker workers (2 * runtime.NumCPU() in the code).
NumWorkers == 2
\* Number of submitTx requests the clients send in one run.
MaxRequests == 3
\* Number of distinct client transactions (payloads).
MaxClientTx == 2
\* Number of distinct detail values the blockchain collaborator can attach.
MaxDetails == 2
\* Number of rounds the watcher runs.
MaxRounds == 3
\* Largest "small" chain head the node reports.
MaxHead == 10
\* Width of the unsigned block numbers (uint64 in the code, scaled down).
UintMod == 2048
\* Capacity of Submitter.txs (128 in the code, scaled down).
TxsCap == 2
\* Number of polls (ticks) of the submitter.
MaxPolls == 3
\* Number of submitTx requests sent while the submitter is observed.
SubmitterRequests == 1
\* Number of requests sent to the cacher.
MaxCacheReqs == 3
\* Number of distinct params values of a request.
MaxParams == 1
\* The configured TTL of the response cache, in seconds.
CacheTTL == 1
\* The capacity of the response cache.
CacheCap == 1
\* The seconds that pass while the cacher is observed.
MaxTime == 2
\* Number of requests sent to the dispatcher.
MaxDispReqs == 2
\* Number of inputs a payload's method declares before the appended ones.
MaxInputs == 2
\* Number of distinct values of an input of the payload.
MaxValue == 2
\* Number of requests sent before the requests channel is closed.
RunRequests == 2
\* Number of darknodes, and of addresses in one answer to a peer query.
NumDarknodes == 4
MaxAnswer == 2
\* The store: goroutines, keys, values, clock ticks per second, last tick.
NumRoutines == 2
NumKeys == 1
NumValues == 2
TicksPerSecond == 2
MaxTicks == 5
\* The timeToLive values NewCache is called with.
TimeToLives == {0, 1}

\* --------------------------------------------------------------- constants

\* Watcher.maxBlockAdvance
maxBlockAdvance == 1000
\* Watcher.confidenceInterval
confidenceInterval == 6

Workers == 1 .. NumWorkers
\* Request ids: 1 .. MaxRequests for the clients' requests, WatcherReq for the
\* request the watcher is waiting on.
WatcherReq == 0
ReqIds == 0 .. MaxRequests
NoWorker == 0
Details == 1 .. MaxDetails

\* The fixed burn log stream: the blocks that hold one burn event each.
BurnBlocks == {2, 3, 4}
\* Burns whose recipient bytes decode neither as an address nor as base58.
UndecodableBurns == {4}

\* Chain heads the node may report.
Heads == (0 .. MaxHead) \cup {maxBlockAdvance + MaxHead}

\* Value of a redis key that is not set (redis.Nil).
Nil == -1

VARIABLES
    \* --- resolver / txChecker
    reqs,         \* by request id: the request, or NoReq
    chan,         \* txChecker.requests: ids waiting for a worker
    resp,         \* by request id: what was sent on its responder
    tpc,          \* by worker: position in the body of Run's loop
    treq,         \* by worker: the request being handled
    ttx,          \* by worker: the tx returned by verify
    tret,         \* by worker: the (tx, err) returned by checkDuplicate
    mu,           \* txChecker.mu: the worker holding it, or NoWorker
    store,        \* the Tx store: by hash, the rows with that hash
    dbLog,        \* by request id: number of db.Tx / db.InsertTx calls made
    insertCalls,  \* by hash: number of InsertTx calls
    insertOk,     \* by hash: number of InsertTx calls that succeeded
    verified,     \* ids of the requests whose verify succeeded
    \* --- watcher
    cursor,       \* redis value under <selector>_lastCheckedBlock, or Nil
    hashMap,      \* burns whose v0/v1 hash mappings are in the cache
    rounds,       \* number of rounds started
    wpc,          \* watcher position: idle, recv, params, wait
    whead,        \* H: head read in the current round
    wlast,        \* L: last checked block read in the current round
    wcur,         \* T: upper bound requested in the current round
    wevent,       \* the event being processed
    wreq,         \* id of the request handed to the resolver
    wresult,      \* how the last round ended
    wrange,       \* blocks of the events in the requested range
    whanded,      \* blocks handed to resolver.SubmitTx in this round
    wingested,    \* blocks whose SubmitTx answered without error
    handed,       \* by block: completed rounds that handed it to SubmitTx
    covered,      \* blocks requested by rounds that wrote the cursor
    wrapped,      \* whether a round's uint64 subtraction has wrapped around
    \* --- EthBurnLogFetcher goroutine
    fpc,          \* position of the goroutine
    fiter,        \* events iter.Next() will still yield
    ffail,        \* whether iter.Error() is non-nil once Next() is false
    fleaked,      \* goroutines left blocked on a send for ever
    ctxDone,      \* whether the round's context is done
    \* --- submitter
    stxs,         \* Submitter.txs: the inputs waiting for the consumer
    polls,        \* number of polls (queryTx calls) started
    ppc,          \* poll loop: idle (waiting for a tick) or running
    ptasks,       \* by hash: the ParForAll task of the running poll
    pctxDone,     \* whether the running poll's context has timed out
    spc,          \* consumer: idle, build (in submitTx) or update
    scur,         \* the input the consumer is submitting
    published,    \* by hash: number of successful PublishSignedTx calls
    transitions,  \* every status change <<from, to>> made in the store
    rootDone,     \* the root context is cancelled
    prun,         \* Run's ticker loop: "loop" or "returned"
    crun,         \* Run's consumer loop: "loop" or "returned"
    dispRoom,     \* the dispatcher's inbox has room: Send returns true
    sfailed,      \* <<hash, polls>> of every submitTx that failed
    sdropped,     \* <<hash, full>> of every input a task did not send
    \* --- cacher
    creqs,        \* by JSON-RPC id: the request sent to the cacher
    cinbox,       \* ids of the requests the cacher has not handled yet
    cdata,        \* by fingerprint: the cached response and its lastSeen
    clru,         \* the cached fingerprints, least recently used first
    ccall,        \* by id: the downstream call made for the request
    cdown,        \* by id: the answer of the next stage on the responder
    cwrote,       \* by id: the answer was written into the cache
    cjoined,      \* by id: the call whose answer the request waits for
    cfwd,         \* by id: the message forwarded to the next stage
    cresp,        \* by id: the response sent on the request's responder
    csrc,         \* by id: where that response came from
    csnap,        \* by id: the response the cache held, within its TTL,
                  \*        when the request was handled
    cbasis,       \* by id: the downstream answer given, within the TTL,
                  \*        before the request was handled
    canswer,      \* by fingerprint: the last downstream answer
    now,          \* the clock, in seconds
    \* --- dispatcher
    dstore,       \* keys of the multi-address store
    dsent,        \* number of requests sent to the dispatcher
    dinbox,       \* ids of the requests the dispatcher has not handled
    dpc,          \* Handle: idle, wait (for responses) or panicked
    dcur,         \* the request Handle is working on
    dcalls,       \* by address: the call of co.ParForAll and its outcome
    dchan,        \* the responses channel
    dcount,       \* i, the number of the response awaited
    dresp,        \* by id: the response sent on the request's responder
    dcould,       \* by id: another contacted peer could still succeed
    \* --- params(tx)
    ptx,          \* the tx params was called on
    pres,         \* what the call returned
    ptxAfter,     \* the tx after the call
    \* --- updater
    ureg,         \* the addresses in the registry
    upc,          \* "new", "idle" or "query"
    upeer,        \* the peer being queried
    usize,        \* what the last Size() returned
    \* --- store: the cache
    knew,         \* NewCache was called
    kttl,         \* cache.timeToLive
    kdata,        \* cache.data
    klast,        \* cache.lastSeen
    kmu,          \* cache.mu: the writer and the readers holding it
    ktime,        \* the clock, in ticks
    kpc,          \* by goroutine: where it is in its call
    kop,          \* by goroutine: the call and its arguments
    kres,         \* by goroutine: what the call observed and returns
    khist,        \* by key: tick and value of the last Write since a Delete
    \* --- txChecker: the requests channel
    tclosed,      \* the requests channel is closed
    \* --- dispatcher: the goroutine Handle starts
    dopen         \* by id: the responses channel is none, open or closed

tcVars == <<reqs, chan, resp, tpc, treq, ttx, tret, mu, store, dbLog,
            insertCalls, insertOk, verified>>
wVars == <<cursor, hashMap, rounds, wpc, whead, wlast, wcur, wevent, wreq,
           wresult, wrange, whanded, wingested, handed, covered, wrapped>>
fVars == <<fpc, fiter, ffail, fleaked, ctxDone>>
sVars == <<stxs, polls, ppc, ptasks, pctxDone, spc, scur, published,
           transitions, rootDone, prun, crun, dispRoom, sfailed, sdropped>>
cVars == <<creqs, cinbox, cdata, clru, ccall, cdown, cwrote, cjoined, cfwd,
           cresp, csrc, csnap, cbasis, canswer, now>>
dVars == <<dstore, dsent, dinbox, dpc, dcur, dcalls, dchan, dcount, dresp,
           dcould>>
pVars == <<ptx, pres, ptxAfter>>
uVars == <<ureg, upc, upeer, usize>>
kVars == <<knew, kttl, kdata, klast, kmu, ktime, kpc, kop, kres, khist>>
qVars == <<tclosed>>
gVars == <<dopen>>
xVars == <<cVars, dVars, pVars, uVars, kVars, qVars, gVars>>
coreVars == <<tcVars, wVars, fVars, sVars, qVars, gVars>>
vars == <<tcVars, wVars, fVars, sVars, xVars>>

\* ------------------------------------------------------------- data types

\* tx hashes are content addressed: direction and payload identity.
TxHashOf(params) == <<params.kind, params.id>>

BurnHash(b) == <<"burn", b>>

AllHashes == {<<"mint", p>> : p \in 1 .. MaxClientTx}
                \cup {BurnHash(b) : b \in BurnBlocks}

\* The zero hash of abi.Tx{}.
NoHash == <<"none", 0>>
StoreKeys == AllHashes \cup {NoHash}
NoTx == [hash |-> NoHash, details |-> 0]

\* jsonrpc responses as the txChecker sends them.
NoResp == [kind |-> "none", tx |-> NoTx]
ErrResp(code) == [kind |-> code, tx |-> NoTx]
OkResp(tx) == [kind |-> "ok", tx |-> tx]

\* -------------------------------------------------- the Tx store (db.DB)

\* db.Tx(hash, false): the stored tx with that hash, sql.ErrNoRows when there
\* is none, another error when the store fails.
DbTx(st, hash, dbFails) ==
    IF dbFails THEN [err |-> "other", tx |-> NoTx]
    ELSE IF st[hash] = <<>> THEN [err |-> "norows", tx |-> NoTx]
    ELSE [err |-> "nil", tx |-> st[hash][1].tx]

\* Whether db.InsertTx(tx, gaas) succeeds: the hash is the primary key, so
\* it fails when a row of that hash exists, and when the store fails.
InsertTxOk(st, tx, ok) == ok /\ st[tx.hash] = <<>>

\* db.InsertTx(tx, gaas): adds a row in status pending when it succeeds.
InsertTx(st, tx, gaas, ok) ==
    IF InsertTxOk(st, tx, ok)
    THEN [st EXCEPT ![tx.hash] =
             Append(@, [tx |-> tx, gaas |-> gaas, status |-> "pending"])]
    ELSE st

\* ------------------------------------------------------ resolver/txChecker

\* txChecker.verify: parameter validation, hash computation, then the UTXO or
\* shift-out details read from the blockchain collaborator (tc.bc).
VerifyTx(params, chainOk, d) ==
    IF params.valid /\ chainOk
    THEN [ok |-> TRUE, tx |-> [hash |-> TxHashOf(params), details |-> d]]
    ELSE [ok |-> FALSE, tx |-> NoTx]

AfterVerify_SkipContinue(ok) == "lock"

\* Run: `if err != nil { RespondWithErr(InvalidParams); continue }`.
AfterVerify(ok) == IF ok THEN "lock" ELSE "idle"

MuFree_NoMutex(m) == TRUE

\* tc.mu.Lock() proceeds only when no worker holds the mutex.
MuFree(m) == m = NoWorker

DuplicateResult_Fresh(stored, tx) == tx

\* checkDuplicate: `return stored, err` when the lookup found a row.
DuplicateResult(stored, tx) == stored

ResponseOf_Success(ret) == OkResp(ret.tx)

\* Run: the response written for the result of checkDuplicate.
ResponseOf(ret) ==
    IF ret.err # "nil" THEN ErrResp("internal") ELSE OkResp(ret.tx)

NoRet == [tx |-> NoTx, err |-> "nil"]

NoReq == [params |-> [kind |-> "none", id |-> 0, valid |-> FALSE],
          gaas |-> FALSE, src |-> "none"]

\* Number of requests the clients have sent.
ClientRequests == Cardinality({i \in 1 .. MaxRequests : reqs[i] # NoReq})

\* A client sends a submitTx request to the resolver.
ClientSubmit ==
    /\ ClientRequests < MaxRequests
    /\ ~tclosed
    /\ \E p \in 1 .. MaxClientTx, v \in BOOLEAN, g \in BOOLEAN :
          /\ reqs' = [reqs EXCEPT ![ClientRequests + 1] =
                         [params |-> [kind |-> "mint", id |-> p, valid |-> v],
                          gaas |-> g, src |-> "client"]]
          /\ chan' = Append(chan, ClientRequests + 1)
    /\ UNCHANGED <<resp, dbLog, tpc, treq, ttx, tret, mu, store, insertCalls,
                   insertOk, verified>>
    /\ UNCHANGED <<wVars, fVars, sVars>>
    /\ UNCHANGED xVars

\* `for req := range tc.requests`: a worker takes the next request.
T_Recv(w) ==
    /\ tpc[w] = "idle"
    /\ chan # <<>>
    /\ treq' = [treq EXCEPT ![w] = Head(chan)]
    /\ chan' = Tail(chan)
    /\ tpc' = [tpc EXCEPT ![w] = "verify"]
    /\ UNCHANGED <<reqs, resp, ttx, tret, mu, store, dbLog, insertCalls,
                   insertOk, verified>>
    /\ UNCHANGED <<wVars, fVars, sVars>>
    /\ UNCHANGED xVars

\* tc.verify and, when it fails, the invalid-params response.
T_Verify(w) ==
    /\ tpc[w] = "verify"
    /\ \E chainOk \in BOOLEAN, d \in Details :
          LET v == VerifyTx(reqs[treq[w]].params, chainOk, d) IN
          /\ ttx' = [ttx EXCEPT ![w] = v.tx]
          /\ tpc' = [tpc EXCEPT ![w] = AfterVerify(v.ok)]
          /\ resp' = IF v.ok THEN resp
                     ELSE [resp EXCEPT ![treq[w]] = ErrResp("invalid-params")]
          /\ verified' = IF v.ok THEN verified \cup {treq[w]} ELSE verified
          /\ treq' = IF AfterVerify(v.ok) = "idle"
                     THEN [treq EXCEPT ![w] = -1] ELSE treq
    /\ UNCHANGED <<reqs, chan, tret, mu, store, dbLog, insertCalls,
                   insertOk>>
    /\ UNCHANGED <<wVars, fVars, sVars>>
    /\ UNCHANGED xVars

\* checkDuplicate: tc.mu.Lock().
T_Lock(w) ==
    /\ tpc[w] = "lock"
    /\ MuFree(mu)
    /\ mu' = w
    /\ tpc' = [tpc EXCEPT ![w] = "lookup"]
    /\ UNCHANGED <<reqs, chan, resp, treq, ttx, tret, store, dbLog,
                   insertCalls, insertOk, verified>>
    /\ UNCHANGED <<wVars, fVars, sVars>>
    /\ UNCHANGED xVars

\* checkDuplicate: tc.db.Tx(tx.Hash, false); returns (with the deferred
\* Unlock) unless the error is sql.ErrNoRows.
T_Lookup(w) ==
    /\ tpc[w] = "lookup"
    /\ \E dbFails \in BOOLEAN :
          LET got == DbTx(store, ttx[w].hash, dbFails) IN
          IF got.err = "norows"
          THEN /\ tpc' = [tpc EXCEPT ![w] = "insert"]
               /\ UNCHANGED <<tret, mu>>
          ELSE /\ tret' = [tret EXCEPT ![w] =
                              [tx |-> DuplicateResult(got.tx, ttx[w]),
                               err |-> got.err]]
               /\ mu' = NoWorker
               /\ tpc' = [tpc EXCEPT ![w] = "respond"]
    /\ dbLog' = [dbLog EXCEPT ![treq[w]] = @ + 1]
    /\ UNCHANGED <<reqs, chan, resp, treq, ttx, store, insertCalls, insertOk,
                   verified>>
    /\ UNCHANGED <<wVars, fVars, sVars>>
    /\ UNCHANGED xVars

\* checkDuplicate: `return tx, tc.db.InsertTx(tx, gaas != "")` and the
\* deferred Unlock.
T_Insert(w) ==
    /\ tpc[w] = "insert"
    /\ \E ok \in BOOLEAN :
          /\ store' = InsertTx(store, ttx[w], reqs[treq[w]].gaas, ok)
          /\ tret' = [tret EXCEPT ![w] =
                         [tx |-> ttx[w],
                          err |-> IF InsertTxOk(store, ttx[w], ok)
                                  THEN "nil" ELSE "other"]]
          /\ insertOk' = IF InsertTxOk(store, ttx[w], ok)
                         THEN [insertOk EXCEPT ![ttx[w].hash] = @ + 1]
                         ELSE insertOk
    /\ insertCalls' = [insertCalls EXCEPT ![ttx[w].hash] = @ + 1]
    /\ dbLog' = [dbLog EXCEPT ![treq[w]] = @ + 1]
    /\ mu' = NoWorker
    /\ tpc' = [tpc EXCEPT ![w] = "respond"]
    /\ UNCHANGED <<reqs, chan, resp, treq, ttx, verified>>
    /\ UNCHANGED <<wVars, fVars, sVars>>
    /\ UNCHANGED xVars

\* Run: the internal error or the ResponseSubmitTx on the responder.
T_Respond(w) ==
    /\ tpc[w] = "respond"
    /\ resp' = [resp EXCEPT ![treq[w]] = ResponseOf(tret[w])]
    /\ tpc' = [tpc EXCEPT ![w] = "idle"]
    /\ treq' = [treq EXCEPT ![w] = -1]
    /\ ttx' = [ttx EXCEPT ![w] = NoTx]
    /\ tret' = [tret EXCEPT ![w] = NoRet]
    /\ UNCHANGED <<reqs, chan, mu, store, dbLog, insertCalls, insertOk,
                   verified>>
    /\ UNCHANGED <<wVars, fVars, sVars>>
    /\ UNCHANGED xVars

\* The resolver closes the requests channel.
CloseRequests ==
    /\ ~tclosed
    /\ tclosed' = TRUE
    /\ UNCHANGED <<tcVars, wVars, fVars, sVars, gVars>>
    /\ UNCHANGED <<cVars, dVars, pVars, uVars, kVars>>

CanReturn_Closed(ch, closed) == closed

\* `for req := range tc.requests` ends: the channel is closed and empty.
CanReturn(ch, closed) == closed /\ ch = <<>>

\* Run: the loop of a worker ends and its function returns.
T_Return(w) ==
    /\ tpc[w] = "idle"
    /\ CanReturn(chan, tclosed)
    /\ tpc' = [tpc EXCEPT ![w] = "returned"]
    /\ UNCHANGED <<reqs, chan, resp, treq, ttx, tret, mu, store, dbLog,
                   insertCalls, insertOk, verified>>
    /\ UNCHANGED <<wVars, fVars, sVars>>
    /\ UNCHANGED xVars

\* A client sends one of the requests made before the channel is closed.
ClientSubmitFew ==
    /\ ClientRequests < RunRequests
    /\ ClientSubmit

TxCheckerRun ==
    \E w \in Workers :
        \/ T_Recv(w)
        \/ T_Verify(w)
        \/ T_Lock(w)
        \/ T_Lookup(w)
        \/ T_Insert(w)
        \/ T_Respond(w)

\* ------------------------------------------------ EthBurnLogFetcher, Watcher

RECURSIVE SortedSeq(_)
\* The blocks of a set in ascending order, as the log filter returns them.
SortedSeq(S) ==
    IF S = {} THEN <<>>
    ELSE LET m == CHOOSE x \in S : \A y \in S : x <= y
         IN <<m>> \o SortedSeq(S \ {m})

\* FilterLogBurn with FilterOpts{Start: from, End: &to}: the burn events of
\* the blocks from..to, both included, that the node (at head H) knows.
FilterLogBurn(from, to, H) ==
    SortedSeq({b \in BurnBlocks : from <= b /\ b <= to /\ b <= H})

\* lastCheckedBlockNumber: `currentBlockN-1` in uint64 arithmetic.
InitialCursor(H) == (H + UintMod - 1) % UintMod

\* watchLogShiftOuts: step := last + maxBlockAdvance; if step < cur
\* { cur = step }; cur -= confidenceInterval, in uint64 arithmetic.
Target(H, L) ==
    LET step == (L + maxBlockAdvance) % UintMod
        cur == IF step < H THEN step ELSE H
    IN (cur + UintMod - confidenceInterval) % UintMod

\* Whether `cur -= confidenceInterval` wraps around for head H and cursor L.
Wraps(H, L) ==
    LET step == (L + maxBlockAdvance) % UintMod
    IN (IF step < H THEN step ELSE H) < confidenceInterval

CursorAfterLogError_NoReturn(c, target) == target

\* watchLogShiftOuts: `if res.Error != nil { ...; return }` leaves the key
\* as it is.
CursorAfterLogError(c, target) == c

CursorAfterFetchError_NoReturn(c, target) == target

\* watchLogShiftOuts: `if err != nil { ...; return }` after FetchBurnLogs.
CursorAfterFetchError(c, target) == c

\* The goroutine of the previous round has ended or is blocked for ever on a
\* send nobody receives.
FetcherBlocked == fpc \in {"sendev", "senderr", "senderr2"} /\ wpc = "idle"
FetcherQuiet == fpc \in {"off", "closed"} \/ FetcherBlocked

Min(a, b) == IF a < b THEN a ELSE b

IsOldRound_Strict(H, L) == H < L

\* watchLogShiftOuts: `if cur <= last { ...; return }`.
IsOldRound(H, L) == H <= L

\* One call of watchLogShiftOuts up to the return of FetchBurnLogs.
W_Begin ==
    /\ wpc = "idle"
    /\ rounds < MaxRounds
    /\ FetcherQuiet
    /\ rounds' = rounds + 1
    /\ fleaked' = IF FetcherBlocked THEN fleaked + 1 ELSE fleaked
    /\ \E H \in Heads,
          io \in {"ok", "headErr", "getErr", "setErr", "filterErr",
                  "iterErr"} :
          LET absent == cursor = Nil
              lastErr == \/ absent /\ io = "setErr"
                         \/ ~absent /\ io = "getErr"
              L == IF absent THEN InitialCursor(H) ELSE cursor
              afterLast == IF absent THEN L ELSE cursor
              T == Target(H, L)
              events == FilterLogBurn(L, T, H)
              ended(res, c, l, t, h) ==
                  /\ wrapped' = (wrapped \/ (res = "old" /\ absent /\ H = 0)
                                  \/ (res = "fetchErr" /\ Wraps(H, L)))
                  /\ wresult' = res
                  /\ cursor' = c
                  /\ wlast' = l /\ wcur' = t /\ whead' = h
                  /\ wrange' = {}
                  /\ fpc' = "off" /\ fiter' = <<>> /\ ffail' = FALSE
                  /\ ctxDone' = TRUE
                  /\ wpc' = "idle"
          IN
          IF io = "headErr" THEN ended("headErr", cursor, 0, 0, 0)
          ELSE IF lastErr THEN ended("lastErr", cursor, 0, 0, H)
          ELSE IF IsOldRound(H, L) THEN ended("old", afterLast, L, 0, H)
          ELSE IF io = "filterErr"
          THEN ended("fetchErr", CursorAfterFetchError(afterLast, T), L, T, H)
          ELSE \* the iterator yields k events and then fails, or
               \* (k = Len(events) + 1) yields them all
               \E k \in 0 .. Len(events) + 1 :
               LET fail == k <= Len(events)
                   early == io = "iterErr" /\ k = 0
               IN
               /\ cursor' = IF early
                            THEN CursorAfterFetchError(afterLast, T)
                            ELSE afterLast
               /\ wlast' = L /\ wcur' = T /\ whead' = H
               /\ wrapped' = (wrapped \/ Wraps(H, L))
               /\ wrange' = {events[i] : i \in 1 .. Len(events)}
               /\ fpc' = "next"
               /\ fiter' = SubSeq(events, 1, Min(k, Len(events)))
               /\ ffail' = fail
               /\ IF early
                  THEN \* `return resultChan, iter.Error()` with the error set
                       /\ wresult' = "fetchErr"
                       /\ wpc' = "idle"
                       /\ ctxDone' = TRUE
                  ELSE /\ wresult' = "running"
                       /\ wpc' = "recv"
                       /\ ctxDone' = FALSE
    /\ whanded' = {}
    /\ wingested' = {}
    /\ UNCHANGED <<hashMap, wevent, wreq, handed, covered>>
    /\ UNCHANGED <<tcVars, sVars>>
    /\ UNCHANGED xVars

\* The goroutine: `for iter.Next()`, then `err := iter.Error()`.
F_Next ==
    /\ fpc = "next"
    /\ fpc' = IF fiter # <<>> THEN "sendev"
              ELSE IF ffail THEN "senderr" ELSE "close"
    /\ UNCHANGED <<fiter, ffail, fleaked, ctxDone>>
    /\ UNCHANGED <<tcVars, wVars, sVars>>
    /\ UNCHANGED xVars

\* The goroutine: `select { case <-ctx.Done(): return }` after a send, then
\* iter.Error(), which is nil as Next() was not called again.
F_CtxDone ==
    /\ fpc = "waitctx"
    /\ ctxDone
    /\ fpc' = "close"
    /\ UNCHANGED <<fiter, ffail, fleaked, ctxDone>>
    /\ UNCHANGED <<tcVars, wVars, sVars>>
    /\ UNCHANGED xVars

\* The goroutine: iter.Close(), then close(resultChan) unless the error of
\* Close is to be sent first.
F_Close ==
    /\ fpc = "close"
    /\ \E closeErr \in BOOLEAN :
          fpc' = IF closeErr THEN "senderr2" ELSE "closed"
    /\ UNCHANGED <<fiter, ffail, fleaked, ctxDone>>
    /\ UNCHANGED <<tcVars, wVars, sVars>>
    /\ UNCHANGED xVars

\* context.WithTimeout(parent, pollInterval) expires during the round.
Timeout ==
    /\ wpc # "idle"
    /\ ~ctxDone
    /\ ctxDone' = TRUE
    /\ UNCHANGED <<fpc, fiter, ffail, fleaked>>
    /\ UNCHANGED <<tcVars, wVars, sVars>>
    /\ UNCHANGED xVars

\* `for res := range c` receives an event the goroutine sends.
W_RecvEvent ==
    /\ wpc = "recv"
    /\ fpc = "sendev"
    /\ wevent' = Head(fiter)
    /\ fiter' = Tail(fiter)
    /\ fpc' = "waitctx"
    /\ wpc' = "params"
    /\ UNCHANGED <<cursor, hashMap, rounds, whead, wlast, wcur, wreq, wresult,
                   wrange, whanded, wingested, handed, covered, wrapped>>
    /\ UNCHANGED <<ffail, fleaked, ctxDone>>
    /\ UNCHANGED <<tcVars, sVars>>
    /\ UNCHANGED xVars

\* burnToParams (with its two cache.Set of the hash mappings) and the call
\* of resolver.SubmitTx; `continue` when burnToParams fails.
W_Params ==
    /\ wpc = "params"
    /\ IF wevent \in UndecodableBurns
       THEN /\ wpc' = "recv"
            /\ wevent' = 0
            /\ UNCHANGED <<hashMap, wreq, whanded>>
            /\ UNCHANGED <<reqs, chan>>
       ELSE /\ hashMap' = hashMap \cup {wevent}
            /\ reqs' = [reqs EXCEPT ![WatcherReq] =
                           [params |-> [kind |-> "burn", id |-> wevent,
                                        valid |-> TRUE],
                            gaas |-> FALSE, src |-> "watcher"]]
            /\ chan' = Append(chan, WatcherReq)
            /\ wreq' = WatcherReq
            /\ whanded' = whanded \cup {wevent}
            /\ wpc' = "wait"
            /\ UNCHANGED wevent
    /\ UNCHANGED <<cursor, rounds, whead, wlast, wcur, wresult, wrange,
                   wingested, handed, covered, wrapped>>
    /\ UNCHANGED <<resp, dbLog, tpc, treq, ttx, tret, mu, store, insertCalls,
                   insertOk, verified>>
    /\ UNCHANGED <<fVars, sVars>>
    /\ UNCHANGED xVars

\* The response of resolver.SubmitTx: logged and skipped when it is an error.
W_Response ==
    /\ wpc = "wait"
    /\ resp[wreq].kind # "none"
    /\ wingested' = IF resp[wreq].kind = "ok"
                    THEN wingested \cup {wevent} ELSE wingested
    /\ wpc' = "recv"
    /\ wevent' = 0
    /\ wreq' = -1
    \* the response is taken off the responder and the request is dropped
    /\ reqs' = [reqs EXCEPT ![wreq] = NoReq]
    /\ resp' = [resp EXCEPT ![wreq] = NoResp]
    /\ dbLog' = [dbLog EXCEPT ![wreq] = 0]
    /\ verified' = verified \ {wreq}
    /\ UNCHANGED <<cursor, hashMap, rounds, whead, wlast, wcur, wresult,
                   wrange, whanded, handed, covered, wrapped>>
    /\ UNCHANGED <<chan, tpc, treq, ttx, tret, mu, store, insertCalls,
                   insertOk>>
    /\ UNCHANGED <<fVars, sVars>>
    /\ UNCHANGED xVars

\* `for res := range c` receives a result with a non-nil Error: return.
W_RecvError ==
    /\ wpc = "recv"
    /\ fpc \in {"senderr", "senderr2"}
    /\ fpc' = IF fpc = "senderr" THEN "close" ELSE "closed"
    /\ cursor' = CursorAfterLogError(cursor, wcur)
    /\ wresult' = "logErr"
    /\ wpc' = "idle"
    /\ ctxDone' = TRUE
    /\ UNCHANGED <<hashMap, rounds, whead, wlast, wcur, wevent, wreq, wrange,
                   whanded, wingested, handed, covered, wrapped>>
    /\ UNCHANGED <<fiter, ffail, fleaked>>
    /\ UNCHANGED <<tcVars, sVars>>
    /\ UNCHANGED xVars

\* The channel is closed: the loop ends and cache.Set(key, cur) is called.
W_ChanClosed ==
    /\ wpc = "recv"
    /\ fpc = "closed"
    /\ \E setOk \in BOOLEAN :
          /\ cursor' = IF setOk THEN wcur ELSE cursor
          /\ wresult' = IF setOk THEN "ok" ELSE "setErr"
          /\ handed' = IF setOk
                       THEN [b \in BurnBlocks |->
                                IF b \in whanded THEN handed[b] + 1
                                ELSE handed[b]]
                       ELSE handed
          /\ covered' = IF setOk THEN covered \cup wrange ELSE covered
    /\ wpc' = "idle"
    /\ ctxDone' = TRUE
    /\ UNCHANGED <<hashMap, rounds, whead, wlast, wcur, wevent, wreq, wrange,
                   whanded, wingested, wrapped>>
    /\ UNCHANGED <<fpc, fiter, ffail, fleaked>>
    /\ UNCHANGED <<tcVars, sVars>>
    /\ UNCHANGED xVars

WatcherRun ==
    \/ W_Begin
    \/ W_RecvEvent
    \/ W_Params
    \/ W_Response
    \/ W_RecvError
    \/ W_ChanClosed

FetcherRun ==
    \/ F_Next
    \/ F_CtxDone
    \/ F_Close
    \/ Timeout

\* ------------------------------------------------- submitter: params(tx)

AutoInputs == <<"_amount", "_nHash", "_sig">>
AutoNames == {"_amount", "_nHash", "_sig"}
UserNames == {"x", "y"}

\* The declared inputs chosen by the caller: sequences of distinct names of
\* length 0 .. MaxInputs.
UserInputs ==
    {u \in UNION {[1 .. n -> UserNames] : n \in 0 .. MaxInputs} :
        \A i, j \in DOMAIN u : i # j => u[i] # u[j]}

\* The inputs a payload's method can declare: the caller's inputs followed
\* by the three auto-appended ones, by `_sig` alone, or by nothing.
AbiInputs ==
    {u \o AutoInputs : u \in UserInputs}
        \cup {u \o <<"_sig">> : u \in UserInputs}
        \cup UserInputs

NoPTx == [inputs |-> <<>>, values |-> <<>>, amount |-> 0, nhash |-> 0,
          r |-> <<>>, s |-> <<>>, v |-> <<>>]
NoPRes == [kind |-> "none", list |-> <<>>]
NilElem == <<"nil">>

\* The sequence without its element at index i (1-based):
\* append(method.Inputs[:i], method.Inputs[i+1:]...).
RemoveAt(seq, i) == SubSeq(seq, 1, i - 1) \o SubSeq(seq, i + 1, Len(seq))

RECURSIVE RemoveLoop(_, _, _, _)
\* removeInput: `for i := range method.Inputs` runs i over the indexes of
\* the slice as it was before the loop (n of them), while the body shortens
\* method.Inputs; method.Inputs[i] beyond its end panics.
RemoveLoop(inputs, names, i, n) ==
    IF i = n THEN [panic |-> FALSE, inputs |-> inputs]
    ELSE IF i + 1 > Len(inputs) THEN [panic |-> TRUE, inputs |-> inputs]
    ELSE IF inputs[i + 1] \in names
         THEN RemoveLoop(RemoveAt(inputs, i + 1), names, i + 1, n)
         ELSE RemoveLoop(inputs, names, i + 1, n)

RemoveInput(inputs, names) == RemoveLoop(inputs, names, 0, Len(inputs))

\* SigFromRSV: append(append(r, s...), v...) after `v[0] += 27` (a byte).
SigFromRSV(r, s, v) == r \o s \o <<(v[1] + 27) % 256>>

\* make([]interface{}, n): a slice of n nil elements.
MakeSlice(n) == [i \in 1 .. n |-> NilElem]

\* params: `params := make([]interface{}, len(values)+3)`.
MakeParams(n) == MakeSlice(n + 3)

\* params(tx): the argument list, an error, or a panic.
Params(tx) ==
    LET removed == RemoveInput(tx.inputs, AutoNames)
        declared == removed.inputs
        \* a.UnpackIntoMap: the payload's values by input name
        values == [i \in 1 .. Len(declared) |->
                      <<"in", declared[i], tx.values[declared[i]]>>]
        sig == SigFromRSV(tx.r, tx.s, tx.v)
    IN IF removed.panic THEN [kind |-> "panic", list |-> <<>>]
       ELSE [kind |-> "ok",
             list |-> MakeParams(Len(declared)) \o values
                          \o << <<"amount", tx.amount>>,
                                <<"nhash", tx.nhash>>,
                                <<"sig", sig>> >>]

\* The tx after params(tx): SigFromRSV adds 27 to v[0] in place.
TxAfterParams(tx) == [tx EXCEPT !.v = <<(tx.v[1] + 27) % 256>>]

\* params is called on a tx.
ParamsCall ==
    /\ \E inputs \in AbiInputs, vals \in [UserNames -> 1 .. MaxValue],
          r \in {<<1>>, <<2>>}, s \in {<<3>>}, v \in {<<0>>, <<1>>, <<255>>} :
          LET tx == [inputs |-> inputs, values |-> vals, amount |-> 5,
                     nhash |-> 7, r |-> r, s |-> s, v |-> v]
          IN /\ ptx' = tx
             /\ pres' = Params(tx)
             /\ ptxAfter' = TxAfterParams(tx)
    /\ UNCHANGED <<coreVars, cVars, dVars, uVars, kVars>>

InitParams ==
    /\ ptx = NoPTx
    /\ pres = NoPRes
    /\ ptxAfter = NoPTx

\* -------------------------------------------------------------- submitter

NoInput == [hash |-> NoHash, poll |-> 0]

\* db.TxsWithStatus(db.TxStatusConfirmed, ...): the hashes of the rows in
\* status confirmed.
TxsWithStatus(st, status) ==
    {h \in AllHashes : st[h] # <<>> /\ st[h][1].status = status}

\* db.UpdateStatus(hash, status): every row of that hash gets the status.
UpdateStatus(st, hash, status) ==
    [st EXCEPT ![hash] =
        [k \in 1 .. Len(@) |-> [@[k] EXCEPT !.status = status]]]

\* The status changes UpdateStatus(hash, status) makes in st.
Changes(st, hash, status) ==
    {<<st[hash][k].status, status>> : k \in 1 .. Len(st[hash])}

\* The context of the poll that created the input is neither cancelled (the
\* deferred cancel of queryTx) nor timed out.
InputCtxAlive(in) == in.poll = polls /\ ppc = "running" /\ ~pctxDone

\* queryTx: the status of the rows it reads, db.TxStatusConfirmed.
PolledStatus == "confirmed"

\* A panic in one of the submitter's goroutines ends the process.
Panicked == spc = "panicked"

\* The inputs declared by the method of the payload of the tx the darknode
\* returns for a hash: the txs of odd id name a method without the
\* auto-appended inputs, the others one that declares them.
PayloadInputs(h) ==
    IF h[2] % 2 = 1 THEN <<"x">> ELSE <<"x">> \o AutoInputs

\* The tx of an input, as params reads it.
InputTx(h) ==
    [inputs |-> PayloadInputs(h), values |-> [n \in UserNames |-> 1],
     amount |-> 5, nhash |-> 7, r |-> <<1>>, s |-> <<3>>, v |-> <<0>>]

SelectCtxDone_Always(done) == TRUE

\* `case <-ctx.Done()` of a select can be taken.
SelectCtxDone(done) == done

\* submitTx after building, signing and publishing: it goes on to
\* UpdateStatus only when all three succeeded.
AfterPublish(ok) == IF ok THEN "update" ELSE "idle"

\* Run, on a tick: queryTx up to the start of the ParForAll tasks. The
\* poll's context is a child of the root context.
S_Poll ==
    /\ ~Panicked
    /\ prun = "loop"
    /\ ppc = "idle"
    /\ polls < MaxPolls
    /\ polls' = polls + 1
    /\ \E dbOk \in BOOLEAN :
          LET txs == IF dbOk THEN TxsWithStatus(store, PolledStatus) ELSE {}
          IN ptasks' = [h \in AllHashes |->
                           IF h \in txs THEN "query" ELSE "none"]
    /\ ppc' = "running"
    /\ pctxDone' = rootDone
    /\ UNCHANGED <<stxs, spc, scur, published, transitions, rootDone, prun,
                   crun, dispRoom, sfailed, sdropped>>
    /\ UNCHANGED <<tcVars, wVars, fVars>>
    /\ UNCHANGED xVars

\* A task of queryTx, queryStatus: `sub.dispatcher.Send(req)`; when it is
\* refused the task logs, sleeps a second and tries again.
S_TaskRequest(h) ==
    /\ ~Panicked
    /\ ppc = "running"
    /\ ptasks[h] = "query"
    /\ ptasks' = [ptasks EXCEPT ![h] = IF dispRoom THEN "wait" ELSE "sleep"]
    /\ UNCHANGED <<stxs, polls, ppc, pctxDone, spc, scur, published,
                   transitions, rootDone, prun, crun, dispRoom, sfailed,
                   sdropped>>
    /\ UNCHANGED <<tcVars, wVars, fVars>>
    /\ UNCHANGED xVars

\* A task of queryTx, queryStatus: time.Sleep(time.Second) is over.
S_TaskWake(h) ==
    /\ ~Panicked
    /\ ppc = "running"
    /\ ptasks[h] = "sleep"
    /\ ptasks' = [ptasks EXCEPT ![h] = "query"]
    /\ UNCHANGED <<stxs, polls, ppc, pctxDone, spc, scur, published,
                   transitions, rootDone, prun, crun, dispRoom, sfailed,
                   sdropped>>
    /\ UNCHANGED <<tcVars, wVars, fVars>>
    /\ UNCHANGED xVars

\* A task of queryTx: the wait for the darknode's response; the task ends
\* unless the answer is "done" (an error includes `case <-ctx.Done()`).
S_TaskQuery(h) ==
    /\ ~Panicked
    /\ ppc = "running"
    /\ ptasks[h] = "wait"
    /\ \E answer \in {"error", "executing", "done"} :
          ptasks' = [ptasks EXCEPT ![h] =
                        IF answer = "done" THEN "send" ELSE "none"]
    /\ UNCHANGED <<stxs, polls, ppc, pctxDone, spc, scur, published,
                   transitions, rootDone, prun, crun, dispRoom, sfailed,
                   sdropped>>
    /\ UNCHANGED <<tcVars, wVars, fVars>>
    /\ UNCHANGED xVars

\* A task of queryTx: `case sub.txs <- in`.
S_TaskSend(h) ==
    /\ ~Panicked
    /\ ppc = "running"
    /\ ptasks[h] = "send"
    /\ Len(stxs) < TxsCap
    /\ stxs' = Append(stxs, [hash |-> h, poll |-> polls])
    /\ ptasks' = [ptasks EXCEPT ![h] = "none"]
    /\ UNCHANGED <<polls, ppc, pctxDone, spc, scur, published, transitions,
                   rootDone, prun, crun, dispRoom, sfailed, sdropped>>
    /\ UNCHANGED <<tcVars, wVars, fVars>>
    /\ UNCHANGED xVars

\* A task of queryTx: `case <-ctx.Done()`, the input is not sent.
S_TaskCtxDone(h) ==
    /\ ~Panicked
    /\ ppc = "running"
    /\ ptasks[h] = "send"
    /\ SelectCtxDone(pctxDone)
    /\ ptasks' = [ptasks EXCEPT ![h] = "none"]
    /\ sdropped' = sdropped \cup {<<h, Len(stxs) = TxsCap>>}
    /\ UNCHANGED <<stxs, polls, ppc, pctxDone, spc, scur, published,
                   transitions, rootDone, prun, crun, dispRoom, sfailed>>
    /\ UNCHANGED <<tcVars, wVars, fVars>>
    /\ UNCHANGED xVars

\* context.WithTimeout(parent, sub.pollInterval) expires during the poll.
S_PollTimeout ==
    /\ ~Panicked
    /\ ppc = "running"
    /\ ~pctxDone
    /\ pctxDone' = TRUE
    /\ UNCHANGED <<stxs, polls, ppc, ptasks, spc, scur, published,
                   transitions, rootDone, prun, crun, dispRoom, sfailed,
                   sdropped>>
    /\ UNCHANGED <<tcVars, wVars, fVars>>
    /\ UNCHANGED xVars

\* queryTx returns once every task has ended (and cancels its context).
S_PollEnd ==
    /\ ~Panicked
    /\ ppc = "running"
    /\ \A h \in AllHashes : ptasks[h] = "none"
    /\ ppc' = "idle"
    /\ pctxDone' = TRUE
    /\ UNCHANGED <<stxs, polls, ptasks, spc, scur, published, transitions,
                   rootDone, prun, crun, dispRoom, sfailed, sdropped>>
    /\ UNCHANGED <<tcVars, wVars, fVars>>
    /\ UNCHANGED xVars

\* Run, the ticker loop: `case <-ctx.Done(): return`.
S_ProducerReturn ==
    /\ ~Panicked
    /\ prun = "loop"
    /\ ppc = "idle"
    /\ rootDone
    /\ prun' = "returned"
    /\ UNCHANGED <<stxs, polls, ppc, ptasks, pctxDone, spc, scur, published,
                   transitions, rootDone, crun, dispRoom, sfailed, sdropped>>
    /\ UNCHANGED <<tcVars, wVars, fVars>>
    /\ UNCHANGED xVars

\* Run, the consumer: `case tx := <-sub.txs`.
S_Take ==
    /\ crun = "loop"
    /\ spc = "idle"
    /\ stxs # <<>>
    /\ scur' = Head(stxs)
    /\ stxs' = Tail(stxs)
    /\ spc' = "build"
    /\ UNCHANGED <<polls, ppc, ptasks, pctxDone, published, transitions,
                   rootDone, prun, crun, dispRoom, sfailed, sdropped>>
    /\ UNCHANGED <<tcVars, wVars, fVars>>
    /\ UNCHANGED xVars

\* Run, the consumer: `case <-ctx.Done(): return`.
S_ConsumerReturn ==
    /\ crun = "loop"
    /\ spc = "idle"
    /\ rootDone
    /\ crun' = "returned"
    /\ UNCHANGED <<stxs, polls, ppc, ptasks, pctxDone, spc, scur, published,
                   transitions, rootDone, prun, dispRoom, sfailed, sdropped>>
    /\ UNCHANGED <<tcVars, wVars, fVars>>
    /\ UNCHANGED xVars

\* submitTx up to PublishSignedTx: params(in.tx) can panic; submitTx
\* returns when the payload is missing or building, signing or publishing
\* fails; BuildTx and PublishSignedTx use in.ctx.
S_Publish ==
    /\ spc = "build"
    /\ IF Params(InputTx(scur.hash)).kind = "panic"
       THEN /\ spc' = "panicked"
            /\ UNCHANGED <<scur, published, sfailed>>
       ELSE \E ok \in BOOLEAN :
               LET done == ok /\ InputCtxAlive(scur)
               IN /\ spc' = AfterPublish(done)
                  /\ scur' = IF AfterPublish(done) = "idle" THEN NoInput
                             ELSE scur
                  /\ published' = IF done
                                  THEN [published EXCEPT ![scur.hash] = @ + 1]
                                  ELSE published
                  /\ sfailed' = IF done THEN sfailed
                                ELSE sfailed \cup {<<scur.hash, polls>>}
    /\ UNCHANGED <<stxs, polls, ppc, ptasks, pctxDone, transitions, rootDone,
                   prun, crun, dispRoom, sdropped>>
    /\ UNCHANGED <<tcVars, wVars, fVars>>
    /\ UNCHANGED xVars

\* submitTx: sub.database.UpdateStatus(in.tx.Hash, db.TxStatusSubmitted).
S_UpdateStatus ==
    /\ spc = "update"
    /\ \E dbOk \in BOOLEAN :
          IF dbOk
          THEN /\ store' = UpdateStatus(store, scur.hash, "submitted")
               /\ transitions' = transitions
                                   \cup Changes(store, scur.hash, "submitted")
          ELSE UNCHANGED <<store, transitions>>
    /\ spc' = "idle"
    /\ scur' = NoInput
    /\ UNCHANGED <<stxs, polls, ppc, ptasks, pctxDone, published, rootDone,
                   prun, crun, dispRoom, sfailed, sdropped>>
    /\ UNCHANGED <<reqs, chan, resp, tpc, treq, ttx, tret, mu, dbLog,
                   insertCalls, insertOk, verified>>
    /\ UNCHANGED <<wVars, fVars>>
    /\ UNCHANGED xVars

\* The root context of the process is cancelled, and with it the context
\* of the poll in progress.
RootCancel ==
    /\ ~rootDone
    /\ rootDone' = TRUE
    /\ pctxDone' = TRUE
    /\ UNCHANGED <<stxs, polls, ppc, ptasks, spc, scur, published,
                   transitions, prun, crun, dispRoom, sfailed, sdropped>>
    /\ UNCHANGED <<tcVars, wVars, fVars>>
    /\ UNCHANGED xVars

\* Requests of other senders fill the inbox of the dispatcher, whose Send
\* then returns false.
DispatcherInboxFull ==
    /\ dispRoom
    /\ dispRoom' = FALSE
    /\ UNCHANGED <<stxs, polls, ppc, ptasks, pctxDone, spc, scur, published,
                   transitions, rootDone, prun, crun, sfailed, sdropped>>
    /\ UNCHANGED <<tcVars, wVars, fVars>>
    /\ UNCHANGED xVars

\* The dispatcher takes a message from its inbox; it runs until the root
\* context is cancelled.
DispatcherInboxRead ==
    /\ ~dispRoom
    /\ ~rootDone
    /\ dispRoom' = TRUE
    /\ UNCHANGED <<stxs, polls, ppc, ptasks, pctxDone, spc, scur, published,
                   transitions, rootDone, prun, crun, sfailed, sdropped>>
    /\ UNCHANGED <<tcVars, wVars, fVars>>
    /\ UNCHANGED xVars

\* The confirmer: pending -> confirming -> confirmed, or pending -> rejected.
Confirm(h) ==
    /\ store[h] # <<>>
    /\ \E to \in {"confirming", "confirmed", "rejected"} :
          /\ <<store[h][1].status, to>> \in
                {<<"pending", "confirming">>, <<"confirming", "confirmed">>,
                 <<"pending", "rejected">>}
          /\ store' = UpdateStatus(store, h, to)
          /\ transitions' = transitions \cup Changes(store, h, to)
    /\ UNCHANGED <<stxs, polls, ppc, ptasks, pctxDone, spc, scur, published,
                   rootDone, prun, crun, dispRoom, sfailed, sdropped>>
    /\ UNCHANGED <<reqs, chan, resp, tpc, treq, ttx, tret, mu, dbLog,
                   insertCalls, insertOk, verified>>
    /\ UNCHANGED <<wVars, fVars>>
    /\ UNCHANGED xVars

\* Settlement on the host chain is observed: submitted -> done or failed.
Settle(h) ==
    /\ store[h] # <<>>
    /\ store[h][1].status = "submitted"
    /\ \E to \in {"done", "failed"} :
          /\ store' = UpdateStatus(store, h, to)
          /\ transitions' = transitions \cup Changes(store, h, to)
    /\ UNCHANGED <<stxs, polls, ppc, ptasks, pctxDone, spc, scur, published,
                   rootDone, prun, crun, dispRoom, sfailed, sdropped>>
    /\ UNCHANGED <<reqs, chan, resp, tpc, treq, ttx, tret, mu, dbLog,
                   insertCalls, insertOk, verified>>
    /\ UNCHANGED <<wVars, fVars>>
    /\ UNCHANGED xVars

\* A client sends a submitTx request while the submitter runs.
ClientSubmitOne ==
    /\ ClientRequests < SubmitterRequests
    /\ ClientSubmit

SubmitterRun ==
    \/ S_Poll
    \/ \E h \in AllHashes : S_TaskRequest(h)
    \/ \E h \in AllHashes : S_TaskWake(h)
    \/ \E h \in AllHashes : S_TaskQuery(h)
    \/ \E h \in AllHashes : S_TaskSend(h)
    \/ \E h \in AllHashes : S_TaskCtxDone(h)
    \/ S_PollTimeout
    \/ S_PollEnd
    \/ S_ProducerReturn
    \/ S_Take
    \/ S_ConsumerReturn
    \/ S_Publish
    \/ S_UpdateStatus

\* What the submitter does not control: the root context and the inbox of
\* the dispatcher.
SubmitterEnv ==
    \/ RootCancel
    \/ DispatcherInboxFull
    \/ DispatcherInboxRead

StatusRun ==
    \/ \E h \in AllHashes : Confirm(h)
    \/ \E h \in AllHashes : Settle(h)

\* ----------------------------------------------------------------- cacher

Methods == {"submitTx", "queryTx", "queryBlock", "queryStat"}
CacheParams == 1 .. MaxParams
CacheIds == 1 .. MaxCacheReqs
NoCacheId == 0

\* Request fingerprint: a content hash over the method name and the params;
\* the JSON-RPC id is not part of it.
Fingerprint(req) == <<req.method, req.params>>
Fingerprints == Methods \X CacheParams

NoCReq == [id |-> 0, method |-> "none", params |-> 0]
CNoResp == [kind |-> "none", id |-> 0]
NoEntry == [resp |-> CNoResp, lastSeen |-> 0]
NoFwd == [req |-> NoCReq, responder |-> NoCacheId]

Cacheable_All(method) == TRUE

\* The per-method policy: caching is disabled for submitTx and queryTx.
Cacheable(method) == method \notin {"submitTx", "queryTx"}

Expired_Always(t, lastSeen, ttl) == TRUE

\* cache.Read: `(time.Now().Unix() - lastSeen) > cache.timeToLive`, checked
\* only when timeToLive > 0.
Expired(t, lastSeen, ttl) == ttl > 0 /\ t - lastSeen > ttl

\* cache.Read: the value under the key, unless it is absent or expired.
CacheRead(data, key, t) ==
    IF data[key] = NoEntry THEN [err |-> "notfound", resp |-> CNoResp]
    ELSE IF Expired(t, data[key].lastSeen, CacheTTL)
         THEN [err |-> "expired", resp |-> CNoResp]
         ELSE [err |-> "nil", resp |-> data[key].resp]

\* cache.Write: the value and the time it was written.
CacheWrite(data, key, value, t) ==
    [data EXCEPT ![key] = [resp |-> value, lastSeen |-> t]]

\* cache.Delete.
CacheDelete(data, key) == [data EXCEPT ![key] = NoEntry]

\* The response of an entry that is at most CacheTTL seconds old at time t.
Within(entry, t) ==
    IF entry # NoEntry /\ t - entry.lastSeen <= CacheTTL THEN entry.resp
    ELSE CNoResp

\* The sequence without the element x.
Without(seq, x) == SelectSeq(seq, LAMBDA y : y # x)

\* LRU order after the key was used: it becomes the most recent one.
Touch(lru, key) == Append(Without(lru, key), key)

\* A downstream call is in flight: forwarded, and its continuation has not
\* delivered the answer yet.
InFlight(i) == ccall[i] \in {"sent", "write", "deliver"}

\* The call in flight for the fingerprint, NoCacheId when there is none.
CallInFlight(fp) ==
    IF \E i \in CacheIds : InFlight(i) /\ Fingerprint(creqs[i]) = fp
    THEN CHOOSE i \in CacheIds : InFlight(i) /\ Fingerprint(creqs[i]) = fp
    ELSE NoCacheId

Coalesce_Never(call) == NoCacheId

\* Coalescing: a miss joins the call in flight for its fingerprint.
Coalesce(call) == call

AfterAnswer_NoWrite(method) == "deliver"

\* The continuation writes the answer of a cacheable method into the cache
\* before it returns it to the caller.
AfterAnswer(method) == IF Cacheable(method) THEN "write" ELSE "deliver"

\* A client sends a request to the cacher; its JSON-RPC id is fresh.
CacherSend ==
    \E i \in CacheIds, m \in Methods, p \in CacheParams :
        /\ creqs[i] = NoCReq
        /\ \A k \in CacheIds : k < i => creqs[k] # NoCReq
        /\ creqs' = [creqs EXCEPT ![i] = [id |-> i, method |-> m, params |-> p]]
        /\ cinbox' = Append(cinbox, i)
        /\ UNCHANGED <<cdata, clru, ccall, cdown, cwrote, cjoined, cfwd, cresp,
                       csrc, csnap, cbasis, canswer, now>>
        /\ UNCHANGED <<coreVars, dVars, pVars, uVars, kVars>>

\* The cacher handles the next request: a hit is answered from the cache, a
\* miss joins the call in flight or is forwarded to the next stage, and a
\* request of a method that is not cached is always forwarded.
CacherHandle ==
    /\ cinbox # <<>>
    /\ LET j == Head(cinbox)
           req == creqs[j]
           fp == Fingerprint(req)
           got == CacheRead(cdata, fp, now)
           call == Coalesce(CallInFlight(fp))
       IN /\ cinbox' = Tail(cinbox)
          /\ csnap' = [csnap EXCEPT ![j] = Within(cdata[fp], now)]
          /\ cbasis' = [cbasis EXCEPT ![j] = Within(canswer[fp], now)]
          /\ IF Cacheable(req.method) /\ got.err = "nil"
             THEN /\ cresp' = [cresp EXCEPT ![j] = got.resp]
                  /\ csrc' = [csrc EXCEPT ![j] = "cache"]
                  /\ clru' = Touch(clru, fp)
                  /\ UNCHANGED <<ccall, cjoined, cfwd>>
             ELSE IF Cacheable(req.method) /\ call # NoCacheId
             THEN /\ cjoined' = [cjoined EXCEPT ![j] = call]
                  /\ UNCHANGED <<cresp, csrc, clru, ccall, cfwd>>
             ELSE /\ ccall' = [ccall EXCEPT ![j] = "sent"]
                  /\ cjoined' = [cjoined EXCEPT ![j] = j]
                  /\ cfwd' = [cfwd EXCEPT ![j] = [req |-> req, responder |-> j]]
                  /\ UNCHANGED <<cresp, csrc, clru>>
    /\ UNCHANGED <<creqs, cdata, cdown, cwrote, canswer, now>>
    /\ UNCHANGED <<coreVars, dVars, pVars, uVars, kVars>>

\* The next stage answers a forwarded request on its responder, with a
\* result or with an error response.
DownstreamAnswer(i) ==
    /\ ccall[i] = "sent"
    /\ \E kind \in {"result", "error"} :
          LET res == [kind |-> kind, id |-> cfwd[i].req.id]
          IN /\ cdown' = [cdown EXCEPT ![i] = res]
             /\ canswer' = [canswer EXCEPT ![Fingerprint(creqs[i])] =
                               [resp |-> res, lastSeen |-> now]]
    /\ ccall' = [ccall EXCEPT ![i] = AfterAnswer(creqs[i].method)]
    /\ UNCHANGED <<creqs, cinbox, cdata, clru, cwrote, cjoined, cfwd, cresp,
                   csrc, csnap, cbasis, now>>
    /\ UNCHANGED <<coreVars, dVars, pVars, uVars, kVars>>

\* The continuation writes the answer back under the fingerprint of the
\* request; the least recently used entry is evicted beyond the capacity.
CacherWrite(i) ==
    /\ ccall[i] = "write"
    /\ LET fp == Fingerprint(creqs[i])
           lru == Touch(clru, fp)
           written == CacheWrite(cdata, fp, cdown[i], now)
       IN IF Len(lru) > CacheCap
          THEN /\ clru' = Tail(lru)
               /\ cdata' = CacheDelete(written, Head(lru))
          ELSE /\ clru' = lru
               /\ cdata' = written
    /\ ccall' = [ccall EXCEPT ![i] = "deliver"]
    /\ cwrote' = [cwrote EXCEPT ![i] = TRUE]
    /\ UNCHANGED <<creqs, cinbox, cdown, cjoined, cfwd, cresp, csrc, csnap,
                   cbasis, canswer, now>>
    /\ UNCHANGED <<coreVars, dVars, pVars, uVars, kVars>>

\* The continuation returns the answer to the caller and to the requests
\* that joined the call.
CacherDeliver(i) ==
    /\ ccall[i] = "deliver"
    /\ cresp' = [j \in CacheIds |->
                    IF cjoined[j] = i /\ csrc[j] = "none" THEN cdown[i]
                    ELSE cresp[j]]
    /\ csrc' = [j \in CacheIds |->
                   IF cjoined[j] = i /\ csrc[j] = "none" THEN "downstream"
                   ELSE csrc[j]]
    /\ ccall' = [ccall EXCEPT ![i] = "done"]
    /\ UNCHANGED <<creqs, cinbox, cdata, clru, cdown, cwrote, cjoined, cfwd,
                   csnap, cbasis, canswer, now>>
    /\ UNCHANGED <<coreVars, dVars, pVars, uVars, kVars>>

\* A second passes.
CacherTick ==
    /\ now < MaxTime
    /\ now' = now + 1
    /\ UNCHANGED <<creqs, cinbox, cdata, clru, ccall, cdown, cwrote, cjoined,
                   cfwd, cresp, csrc, csnap, cbasis, canswer>>
    /\ UNCHANGED <<coreVars, dVars, pVars, uVars, kVars>>

\* The background sweep removes the expired entries.
CacherSweep ==
    /\ \E fp \in Fingerprints :
          cdata[fp] # NoEntry /\ Expired(now, cdata[fp].lastSeen, CacheTTL)
    /\ cdata' = [fp \in Fingerprints |->
                    IF cdata[fp] # NoEntry
                       /\ Expired(now, cdata[fp].lastSeen, CacheTTL)
                    THEN NoEntry ELSE cdata[fp]]
    /\ clru' = SelectSeq(clru, LAMBDA fp : cdata'[fp] # NoEntry)
    /\ UNCHANGED <<creqs, cinbox, ccall, cdown, cwrote, cjoined, cfwd, cresp,
                   csrc, csnap, cbasis, canswer, now>>
    /\ UNCHANGED <<coreVars, dVars, pVars, uVars, kVars>>

CacherRun ==
    \/ CacherHandle
    \/ \E i \in CacheIds : CacherWrite(i)
    \/ \E i \in CacheIds : CacherDeliver(i)
    \/ CacherSweep

InitCacher ==
    /\ creqs = [i \in CacheIds |-> NoCReq]
    /\ cinbox = <<>>
    /\ cdata = [fp \in Fingerprints |-> NoEntry]
    /\ clru = <<>>
    /\ ccall = [i \in CacheIds |-> "none"]
    /\ cdown = [i \in CacheIds |-> CNoResp]
    /\ cwrote = [i \in CacheIds |-> FALSE]
    /\ cjoined = [i \in CacheIds |-> NoCacheId]
    /\ cfwd = [i \in CacheIds |-> NoFwd]
    /\ cresp = [i \in CacheIds |-> CNoResp]
    /\ csrc = [i \in CacheIds |-> "none"]
    /\ csnap = [i \in CacheIds |-> CNoResp]
    /\ cbasis = [i \in CacheIds |-> CNoResp]
    /\ canswer = [fp \in Fingerprints |-> NoEntry]
    /\ now = 0

\* -------------------------------------------------------------- dispatcher

\* The keys the multi-address store can hold; "bad" is not a valid
\* multi-address.
AddrKeys == {"a1", "a2", "bad"}
DispIds == 1 .. MaxDispReqs
NoDispId == 0
NoKey == "none"
DNoResp == [kind |-> "none", from |-> NoKey]

\* addr.NewMultiAddressFromString(str) returns no error.
ValidMultiAddress(key) == key # "bad"

MultiAddrs_All(keys, first) == {k \in keys : ValidMultiAddress(k)}

\* multiAddrs: addr.MultiAddresses{address}, the address of the first key
\* of the iterator only.
MultiAddrs(keys, first) == {first}

\* multiAddrs panics on an empty store and on a key that is not a
\* multi-address.
MultiAddrsPanics(keys, first) == keys = {} \/ ~ValidMultiAddress(first)

\* FirstResponseIterator.update: `return true, res`.
Update(res, final) == [done |-> TRUE, response |-> res]

\* SendToDarknode: the response, or jsonrpc.Response{} when err != nil.
PeerResponse(a, outcome) ==
    [kind |-> IF outcome = "fail" THEN "empty" ELSE outcome, from |-> a]

\* An address is inserted into the multi-address store.
StoreInsert ==
    /\ dpc # "panicked"
    /\ \E k \in AddrKeys \ dstore : dstore' = dstore \cup {k}
    /\ UNCHANGED <<dsent, dinbox, dpc, dcur, dcalls, dchan, dcount, dresp,
                   dcould>>
    /\ UNCHANGED <<coreVars, cVars, pVars, uVars, kVars>>

\* A request is sent to the dispatcher task.
DispatcherSend ==
    /\ dsent < MaxDispReqs
    /\ dsent' = dsent + 1
    /\ dinbox' = Append(dinbox, dsent + 1)
    /\ UNCHANGED <<dstore, dpc, dcur, dcalls, dchan, dcount, dresp, dcould>>
    /\ UNCHANGED <<coreVars, cVars, pVars, uVars, kVars>>

\* Handle up to the start of the calls: multiAddrs, the responses channel
\* and co.ParForAll over the addresses.
D_Handle ==
    /\ dpc = "idle"
    /\ dinbox # <<>>
    /\ dcur' = Head(dinbox)
    /\ dinbox' = Tail(dinbox)
    /\ \E first \in (IF dstore = {} THEN {NoKey} ELSE dstore) :
          IF MultiAddrsPanics(dstore, first)
          THEN /\ dpc' = "panicked"
               /\ UNCHANGED <<dcalls, dopen>>
          ELSE /\ dpc' = "wait"
               /\ dcalls' = [a \in AddrKeys |->
                                IF a \in MultiAddrs(dstore, first)
                                THEN "calling" ELSE "none"]
               /\ dopen' = [dopen EXCEPT ![Head(dinbox)] = "open"]
    /\ dchan' = <<>>
    /\ dcount' = 1
    /\ UNCHANGED <<dstore, dsent, dresp, dcould>>
    /\ UNCHANGED <<tcVars, wVars, fVars, sVars, qVars>>
    /\ UNCHANGED <<cVars, pVars, uVars, kVars>>

\* The addresses Handle contacts for the request it is working on.
Contacted == {a \in AddrKeys : dcalls[a] # "none"}

ResponsesCap_Unbuffered(addrs) == 0

\* Handle: `make(chan jsonrpc.Response, len(addrs))`.
ResponsesCap(addrs) == Cardinality(addrs)

\* A send on a buffered channel proceeds when the buffer has room.
CanSend(ch, cap) == Len(ch) < cap

\* A call of co.ParForAll: SendToDarknode and the send on responses.
D_PeerCall(a) ==
    /\ dpc = "wait"
    /\ dcalls[a] = "calling"
    /\ CanSend(dchan, ResponsesCap(Contacted))
    /\ \E outcome \in {"ok", "error", "fail"} :
          /\ dcalls' = [dcalls EXCEPT ![a] = outcome]
          /\ dchan' = Append(dchan, PeerResponse(a, outcome))
    /\ UNCHANGED <<dstore, dsent, dinbox, dpc, dcur, dcount, dresp, dcould>>
    /\ UNCHANGED <<coreVars, cVars, pVars, uVars, kVars>>

\* Handle: `for res := range responses`, and the empty response when the
\* channel is closed before the iterator is done.
D_Recv ==
    /\ dpc = "wait"
    /\ \/ dchan # <<>>
       \/ \A a \in AddrKeys : dcalls[a] # "calling"
    /\ LET contacted == {a \in AddrKeys : dcalls[a] # "none"}
           closed == dchan = <<>>
           upd == IF closed THEN [done |-> TRUE, response |-> DNoResp]
                  ELSE Update(Head(dchan), dcount = Cardinality(contacted))
       IN IF upd.done
          THEN /\ dresp' = [dresp EXCEPT ![dcur] =
                              IF closed
                              THEN [kind |-> "empty", from |-> NoKey]
                              ELSE upd.response]
               /\ dcould' = [dcould EXCEPT ![dcur] =
                                \E a \in contacted :
                                    /\ a # upd.response.from
                                    /\ dcalls[a] \in {"calling", "ok"}]
               /\ dpc' = "idle"
               /\ dcur' = NoDispId
               /\ dchan' = <<>>
               /\ dcalls' = [a \in AddrKeys |-> "none"]
               /\ dcount' = 1
          ELSE /\ dchan' = Tail(dchan)
               /\ dcount' = dcount + 1
               /\ UNCHANGED <<dresp, dcould, dpc, dcur, dcalls>>
    /\ UNCHANGED <<dstore, dsent, dinbox>>
    /\ UNCHANGED <<coreVars, cVars, pVars, uVars, kVars>>

\* The goroutine of Handle: close(responses) once co.ParForAll has
\* returned, before or after Handle itself returns.
D_Close(i) ==
    /\ dopen[i] = "open"
    /\ dcur = i => \A a \in AddrKeys : dcalls[a] # "calling"
    /\ dopen' = [dopen EXCEPT ![i] = "closed"]
    /\ UNCHANGED dVars
    /\ UNCHANGED <<tcVars, wVars, fVars, sVars, qVars>>
    /\ UNCHANGED <<cVars, pVars, uVars, kVars>>

DispatcherRun ==
    \/ D_Handle
    \/ \E a \in AddrKeys : D_PeerCall(a)
    \/ D_Recv

InitDispatcher ==
    /\ dstore = {}
    /\ dsent = 0
    /\ dinbox = <<>>
    /\ dpc = "idle"
    /\ dcur = NoDispId
    /\ dcalls = [a \in AddrKeys |-> "none"]
    /\ dchan = <<>>
    /\ dcount = 1
    /\ dresp = [i \in DispIds |-> DNoResp]
    /\ dcould = [i \in DispIds |-> FALSE]

\* ---------------------------------------------------------------- updater

Darknodes == 1 .. NumDarknodes
NoPeer == 0
NoSize == [size |-> -1, err |-> FALSE]

\* The bootstrap lists: not empty and not every darknode.
BootstrapLists == {b \in SUBSET Darknodes : b # {} /\ b # Darknodes}

\* What a darknode can answer to a peer query: addresses drawn from the
\* full list.
PeerAnswers ==
    {a \in SUBSET Darknodes : a # {} /\ Cardinality(a) <= MaxAnswer}

\* multiStore.Size(): the number of addresses in the registry.
Size(reg) == [size |-> Cardinality(reg), err |-> FALSE]

Merge_Keep(reg, addrs) == reg

\* The peers of an answer are inserted into the registry.
Merge(reg, addrs) == reg \cup addrs

\* initUpdater: the bootstrap addresses are inserted and the updater runs.
InitUpdaterRun ==
    /\ upc = "new"
    /\ \E b \in BootstrapLists : ureg' = b
    /\ upc' = "idle"
    /\ UNCHANGED <<upeer, usize>>
    /\ UNCHANGED <<coreVars, cVars, dVars, pVars, kVars>>

\* On a tick of the poll rate the updater selects a known peer at random
\* and sends it the peer query.
U_Query ==
    /\ upc = "idle"
    /\ \E p \in ureg : upeer' = p
    /\ upc' = "query"
    /\ UNCHANGED <<ureg, usize>>
    /\ UNCHANGED <<coreVars, cVars, dVars, pVars, kVars>>

\* The peer answers with addresses, among them the address a.
U_Answer(a) ==
    /\ upc = "query"
    /\ \E addrs \in PeerAnswers :
          /\ a \in addrs
          /\ ureg' = Merge(ureg, addrs)
    /\ upc' = "idle"
    /\ upeer' = NoPeer
    /\ UNCHANGED usize
    /\ UNCHANGED <<coreVars, cVars, dVars, pVars, kVars>>

\* The round fails (timeout, error response): logged and ignored.
U_Fail ==
    /\ upc = "query"
    /\ upc' = "idle"
    /\ upeer' = NoPeer
    /\ UNCHANGED <<ureg, usize>>
    /\ UNCHANGED <<coreVars, cVars, dVars, pVars, kVars>>

\* The caller reads the size of the registry.
U_Size ==
    /\ upc # "new"
    /\ usize' = Size(ureg)
    /\ UNCHANGED <<ureg, upc, upeer>>
    /\ UNCHANGED <<coreVars, cVars, dVars, pVars, kVars>>

UpdaterRun ==
    \/ U_Query
    \/ \E a \in Darknodes : U_Answer(a)
    \/ U_Fail

InitUpdater ==
    /\ ureg = {}
    /\ upc = "new"
    /\ upeer = NoPeer
    /\ usize = NoSize

\* ------------------------------------------------------ store: the cache

Routines == 1 .. NumRoutines
KvKeys == 1 .. NumKeys
KvValues == 1 .. NumValues
NoRoutine == 0
NoVal == 0
NoData == <<"none", 0>>
NoTime == -1
NoWrite == [tick |-> NoTime, val |-> NoVal]
NoOp == [op |-> "none", key |-> 0, val |-> NoVal]
NoRes == [sawLast |-> "unread", sawData |-> "unread", err |-> "none",
          val |-> NoVal, since |-> -1, last |-> NoVal, keys |-> {},
          fresh |-> {}, n |-> -1]
ReadOps == {"read", "entries", "iterator"}
WriteOps == {"write", "delete"}

\* time.Now().Unix(): the whole seconds of the clock.
Unix(tick) == tick \div TicksPerSecond

\* json.Marshal and json.Unmarshal of a value of the store.
Marshal(v) == <<"json", v>>
Unmarshal(b) == b[2]

CanRLock_Always(lock) == TRUE

\* mu.RLock() returns: no writer holds the lock.
CanRLock(lock) == lock.writer = NoRoutine

CanLock_Always(lock) == TRUE

\* mu.Lock() returns: nobody holds the lock.
CanLock(lock) == lock.writer = NoRoutine /\ lock.readers = {}

KvExpired_Never(tick, lastSeen, ttl) == FALSE

\* Read: the data is expired.
KvExpired(tick, lastSeen, ttl) == Unix(tick) - lastSeen > ttl

\* The keys of a map.
KeysOf(m, none) == {k \in KvKeys : m[k] # none}

\* The keys a Read at this tick would not report as expired or missing.
FreshKeys(data, last, ttl, tick) ==
    {k \in KeysOf(data, NoData) :
        ttl > 0 => (last[k] # NoTime /\ ~KvExpired(tick, last[k], ttl))}

\* The ticks passed since the last Write of the key that no Delete
\* followed, -1 when there is none.
TicksSince(hist, key, tick) ==
    IF hist[key] = NoWrite THEN -1 ELSE tick - hist[key].tick

\* NewCache(timeToLive).
NewCache ==
    /\ ~knew
    /\ knew' = TRUE
    /\ \E ttl \in TimeToLives : kttl' = ttl
    /\ UNCHANGED <<kdata, klast, kmu, ktime, kpc, kop, kres, khist>>
    /\ UNCHANGED <<coreVars, cVars, dVars, pVars, uVars>>

\* A goroutine calls Read, Write, Delete, Entries or Iterator.
K_Call(g) ==
    /\ knew
    /\ kpc[g] = "idle"
    /\ \E op \in ReadOps \cup WriteOps, k \in KvKeys, v \in KvValues :
          /\ op # "write" => v = 1
          /\ op \in {"entries", "iterator"} => k = 1
          /\ kop' = [kop EXCEPT ![g] = [op |-> op, key |-> k, val |-> v]]
    /\ kpc' = [kpc EXCEPT ![g] = "lock"]
    /\ kres' = [kres EXCEPT ![g] = NoRes]
    /\ UNCHANGED <<knew, kttl, kdata, klast, kmu, ktime, khist>>
    /\ UNCHANGED <<coreVars, cVars, dVars, pVars, uVars>>

\* cache.mu.RLock() or cache.mu.Lock() returns.
K_Lock(g) ==
    /\ kpc[g] = "lock"
    /\ IF kop[g].op \in ReadOps
       THEN /\ CanRLock(kmu)
            /\ kmu' = [kmu EXCEPT !.readers = @ \cup {g}]
       ELSE /\ CanLock(kmu)
            /\ kmu' = [kmu EXCEPT !.writer = g]
    /\ kpc' = [kpc EXCEPT ![g] = "first"]
    /\ UNCHANGED <<knew, kttl, kdata, klast, ktime, kop, kres, khist>>
    /\ UNCHANGED <<coreVars, cVars, dVars, pVars, uVars>>

\* Read: the check of lastSeen, made only when timeToLive > 0.
K_ReadLastSeen(g) ==
    /\ kpc[g] = "first"
    /\ kop[g].op = "read"
    /\ LET key == kop[g].key
           since == TicksSince(khist, key, ktime)
           last == khist[key].val
       IN IF kttl > 0 /\ klast[key] = NoTime
          THEN /\ kres' = [kres EXCEPT ![g].sawLast = "absent",
                                        ![g].err = "notfound",
                                        ![g].since = since,
                                        ![g].last = last]
               /\ kpc' = [kpc EXCEPT ![g] = "unlock"]
          ELSE IF kttl > 0 /\ KvExpired(ktime, klast[key], kttl)
          THEN /\ kres' = [kres EXCEPT ![g].sawLast = "present",
                                        ![g].err = "expired",
                                        ![g].since = since,
                                        ![g].last = last]
               /\ kpc' = [kpc EXCEPT ![g] = "unlock"]
          ELSE /\ kres' = [kres EXCEPT
                             ![g].sawLast = IF kttl > 0 THEN "present"
                                            ELSE "unread",
                             ![g].since = since,
                             ![g].last = last]
               /\ kpc' = [kpc EXCEPT ![g] = "second"]
    /\ UNCHANGED <<knew, kttl, kdata, klast, kmu, ktime, kop, khist>>
    /\ UNCHANGED <<coreVars, cVars, dVars, pVars, uVars>>

\* Read: `val, ok := cache.data[key]` and json.Unmarshal.
K_ReadData(g) ==
    /\ kpc[g] = "second"
    /\ kop[g].op = "read"
    /\ LET key == kop[g].key
       IN IF kdata[key] = NoData
          THEN kres' = [kres EXCEPT ![g].sawData = "absent",
                                    ![g].err = "notfound"]
          ELSE kres' = [kres EXCEPT ![g].sawData = "present",
                                    ![g].err = "nil",
                                    ![g].val = Unmarshal(kdata[key])]
    /\ kpc' = [kpc EXCEPT ![g] = "unlock"]
    /\ UNCHANGED <<knew, kttl, kdata, klast, kmu, ktime, kop, khist>>
    /\ UNCHANGED <<coreVars, cVars, dVars, pVars, uVars>>

\* Write: json.Marshal and `cache.data[key] = val`.
K_WriteData(g) ==
    /\ kpc[g] = "first"
    /\ kop[g].op = "write"
    /\ kdata' = [kdata EXCEPT ![kop[g].key] = Marshal(kop[g].val)]
    /\ kpc' = [kpc EXCEPT ![g] = "second"]
    /\ UNCHANGED <<knew, kttl, klast, kmu, ktime, kop, kres, khist>>
    /\ UNCHANGED <<coreVars, cVars, dVars, pVars, uVars>>

\* Write: `cache.lastSeen[key] = time.Now().Unix()` when timeToLive > 0.
K_WriteLastSeen(g) ==
    /\ kpc[g] = "second"
    /\ kop[g].op = "write"
    /\ klast' = IF kttl > 0
                THEN [klast EXCEPT ![kop[g].key] = Unix(ktime)]
                ELSE klast
    /\ khist' = [khist EXCEPT ![kop[g].key] =
                    [tick |-> ktime, val |-> kop[g].val]]
    /\ kres' = [kres EXCEPT ![g].err = "nil"]
    /\ kpc' = [kpc EXCEPT ![g] = "unlock"]
    /\ UNCHANGED <<knew, kttl, kdata, kmu, ktime, kop>>
    /\ UNCHANGED <<coreVars, cVars, dVars, pVars, uVars>>

\* Delete: `delete(cache.data, key)`.
K_DeleteData(g) ==
    /\ kpc[g] = "first"
    /\ kop[g].op = "delete"
    /\ kdata' = [kdata EXCEPT ![kop[g].key] = NoData]
    /\ kpc' = [kpc EXCEPT ![g] = "second"]
    /\ UNCHANGED <<knew, kttl, klast, kmu, ktime, kop, kres, khist>>
    /\ UNCHANGED <<coreVars, cVars, dVars, pVars, uVars>>

\* Delete: `delete(cache.lastSeen, key)`.
K_DeleteLastSeen(g) ==
    /\ kpc[g] = "second"
    /\ kop[g].op = "delete"
    /\ klast' = [klast EXCEPT ![kop[g].key] = NoTime]
    /\ khist' = [khist EXCEPT ![kop[g].key] = NoWrite]
    /\ kres' = [kres EXCEPT ![g].err = "nil"]
    /\ kpc' = [kpc EXCEPT ![g] = "unlock"]
    /\ UNCHANGED <<knew, kttl, kdata, kmu, ktime, kop>>
    /\ UNCHANGED <<coreVars, cVars, dVars, pVars, uVars>>

\* Entries: `len(cache.data)`.
K_Entries(g) ==
    /\ kpc[g] = "first"
    /\ kop[g].op = "entries"
    /\ kres' = [kres EXCEPT
                  ![g].n = Cardinality(KeysOf(kdata, NoData)),
                  ![g].fresh = FreshKeys(kdata, klast, kttl, ktime),
                  ![g].err = "nil"]
    /\ kpc' = [kpc EXCEPT ![g] = "unlock"]
    /\ UNCHANGED <<knew, kttl, kdata, klast, kmu, ktime, kop, khist>>
    /\ UNCHANGED <<coreVars, cVars, dVars, pVars, uVars>>

\* Iterator: newCacheIterator(cache.data) copies every key and value.
K_Iterator(g) ==
    /\ kpc[g] = "first"
    /\ kop[g].op = "iterator"
    /\ kres' = [kres EXCEPT
                  ![g].keys = KeysOf(kdata, NoData),
                  ![g].fresh = FreshKeys(kdata, klast, kttl, ktime),
                  ![g].err = "nil"]
    /\ kpc' = [kpc EXCEPT ![g] = "unlock"]
    /\ UNCHANGED <<knew, kttl, kdata, klast, kmu, ktime, kop, khist>>
    /\ UNCHANGED <<coreVars, cVars, dVars, pVars, uVars>>

\* The deferred RUnlock or Unlock: the call returns.
K_Unlock(g) ==
    /\ kpc[g] = "unlock"
    /\ kmu' = IF kop[g].op \in ReadOps
              THEN [kmu EXCEPT !.readers = @ \ {g}]
              ELSE [kmu EXCEPT !.writer = IF @ = g THEN NoRoutine ELSE @]
    /\ kpc' = [kpc EXCEPT ![g] = "idle"]
    /\ UNCHANGED <<knew, kttl, kdata, klast, ktime, kop, kres, khist>>
    /\ UNCHANGED <<coreVars, cVars, dVars, pVars, uVars>>

\* Time passes.
K_Tick ==
    /\ knew
    /\ ktime < MaxTicks
    /\ ktime' = ktime + 1
    /\ UNCHANGED <<knew, kttl, kdata, klast, kmu, kpc, kop, kres, khist>>
    /\ UNCHANGED <<coreVars, cVars, dVars, pVars, uVars>>

KvRun(g) ==
    \/ K_Call(g)
    \/ K_Lock(g)
    \/ K_ReadLastSeen(g)
    \/ K_ReadData(g)
    \/ K_WriteData(g)
    \/ K_WriteLastSeen(g)
    \/ K_DeleteData(g)
    \/ K_DeleteLastSeen(g)
    \/ K_Entries(g)
    \/ K_Iterator(g)
    \/ K_Unlock(g)

InitKv ==
    /\ knew = FALSE
    /\ kttl = 0
    /\ kdata = [k \in KvKeys |-> NoData]
    /\ klast = [k \in KvKeys |-> NoTime]
    /\ kmu = [writer |-> NoRoutine, readers |-> {}]
    /\ ktime = 0
    /\ kpc = [g \in Routines |-> "idle"]
    /\ kop = [g \in Routines |-> NoOp]
    /\ kres = [g \in Routines |-> NoRes]
    /\ khist = [k \in KvKeys |-> NoWrite]

\* ------------------------------------------------------------------- init

InitTxChecker ==
    /\ reqs = [i \in ReqIds |-> NoReq]
    /\ chan = <<>>
    /\ resp = [i \in ReqIds |-> NoResp]
    /\ tpc = [w \in Workers |-> "idle"]
    /\ treq = [w \in Workers |-> -1]
    /\ ttx = [w \in Workers |-> NoTx]
    /\ tret = [w \in Workers |-> NoRet]
    /\ mu = NoWorker
    /\ store = [h \in StoreKeys |-> <<>>]
    /\ dbLog = [i \in ReqIds |-> 0]
    /\ insertCalls = [h \in StoreKeys |-> 0]
    /\ insertOk = [h \in StoreKeys |-> 0]
    /\ verified = {}

InitWatcher ==
    /\ cursor = Nil
    /\ hashMap = {}
    /\ rounds = 0
    /\ wpc = "idle"
    /\ whead = 0
    /\ wlast = 0
    /\ wcur = 0
    /\ wevent = 0
    /\ wreq = -1
    /\ wresult = "none"
    /\ wrange = {}
    /\ whanded = {}
    /\ wingested = {}
    /\ handed = [b \in BurnBlocks |-> 0]
    /\ covered = {}
    /\ wrapped = FALSE
    /\ fpc = "off"
    /\ fiter = <<>>
    /\ ffail = FALSE
    /\ fleaked = 0
    /\ ctxDone = FALSE

InitSubmitter ==
    /\ stxs = <<>>
    /\ polls = 0
    /\ ppc = "idle"
    /\ ptasks = [h \in AllHashes |-> "none"]
    /\ pctxDone = TRUE
    /\ spc = "idle"
    /\ scur = NoInput
    /\ published = [h \in AllHashes |-> 0]
    /\ transitions = {}
    /\ rootDone = FALSE
    /\ prun = "loop"
    /\ crun = "loop"
    /\ dispRoom = TRUE
    /\ sfailed = {}
    /\ sdropped = {}

Init ==
    /\ InitTxChecker /\ InitWatcher /\ InitSubmitter
    /\ InitCacher /\ InitDispatcher /\ InitParams
    /\ InitUpdater /\ InitKv
    /\ tclosed = FALSE
    /\ dopen = [i \in DispIds |-> "none"]

\* The resolver under client submissions.
NextTxChecker == ClientSubmit \/ TxCheckerRun

SpecTxChecker == Init /\ [][NextTxChecker]_vars

\* The txChecker from its start to the return of Run.
NextTxCheckerRun ==
    ClientSubmitFew \/ CloseRequests \/ TxCheckerRun
        \/ (\E w \in Workers : T_Return(w))

\* Every worker that can take a step takes one, and a worker waiting for
\* the mutex gets it.
TxCheckerFairness ==
    \A w \in Workers :
        /\ WF_vars(T_Recv(w))
        /\ WF_vars(T_Verify(w))
        /\ SF_vars(T_Lock(w))
        /\ WF_vars(T_Lookup(w))
        /\ WF_vars(T_Insert(w))
        /\ WF_vars(T_Respond(w))
        /\ WF_vars(T_Return(w))

SpecTxCheckerRun == Init /\ [][NextTxCheckerRun]_vars /\ TxCheckerFairness

\* The watcher, its log fetcher and the resolver it submits to.
Next == WatcherRun \/ FetcherRun \/ TxCheckerRun

Spec == Init /\ [][Next]_vars

\* The submitter beside the resolver that inserts the rows and the
\* components that move them through the other statuses.
NextSubmitter ==
    ClientSubmitOne \/ TxCheckerRun \/ StatusRun \/ SubmitterRun
        \/ SubmitterEnv

SpecSubmitter == Init /\ [][NextSubmitter]_vars

\* The scheduling of the submitter's goroutines: a goroutine that can take
\* a step takes it, a timer that can expire expires, and a select with
\* several ready cases does not leave one of them out forever.
SubmitterFairness ==
    /\ \A h \in AllHashes :
          /\ WF_vars(S_TaskRequest(h))
          /\ WF_vars(S_TaskWake(h))
          /\ WF_vars(S_TaskQuery(h))
          /\ SF_vars(S_TaskSend(h))
          /\ SF_vars(S_TaskCtxDone(h))
    /\ WF_vars(S_PollTimeout)
    /\ WF_vars(S_PollEnd)
    /\ SF_vars(S_ProducerReturn)
    /\ SF_vars(S_Take)
    /\ SF_vars(S_ConsumerReturn)
    /\ WF_vars(S_Publish)
    /\ WF_vars(S_UpdateStatus)
    /\ WF_vars(DispatcherInboxRead)

\* The submitter under fair scheduling.
SpecSubmitterFair == Init /\ [][NextSubmitter]_vars /\ SubmitterFairness

\* The cacher between its clients and the next stage.
NextCacher ==
    \/ CacherSend
    \/ CacherRun
    \/ \E i \in CacheIds : DownstreamAnswer(i)
    \/ CacherTick

SpecCacher == Init /\ [][NextCacher]_vars

\* The dispatcher, its address store and the peers it calls.
NextDispatcher == StoreInsert \/ DispatcherSend \/ DispatcherRun

SpecDispatcher == Init /\ [][NextDispatcher]_vars

\* The dispatcher with the goroutines Handle leaves behind.
NextDispatcherGo == NextDispatcher \/ (\E i \in DispIds : D_Close(i))

\* The goroutine of each Handle call is scheduled.
DispatcherFairness == \A i \in DispIds : WF_vars(D_Close(i))

SpecDispatcherGo ==
    Init /\ [][NextDispatcherGo]_vars /\ DispatcherFairness

\* params applied to the txs a submitter can be given.
NextParams == ParamsCall

SpecParams == Init /\ [][NextParams]_vars

\* The updater polling the darknodes, and a caller reading the size.
NextUpdater == InitUpdaterRun \/ UpdaterRun \/ U_Size

\* A poll is made when its tick comes, and the random choices of the
\* darknodes do not leave an address out forever.
UpdaterFairness ==
    /\ WF_vars(InitUpdaterRun)
    /\ WF_vars(U_Query)
    /\ \A a \in Darknodes : SF_vars(U_Answer(a))

SpecUpdater == Init /\ [][NextUpdater]_vars /\ UpdaterFairness

\* Goroutines using one cache while time passes.
NextKv == NewCache \/ (\E g \in Routines : KvRun(g)) \/ K_Tick

SpecKv == Init /\ [][NextKv]_vars

\* ================================================================ claims

\* ---- the watcher's cursor (under Spec)

\* C1: the value under <selector>_lastCheckedBlock never decreases: every
\* write of a round stores a value >= the value stored before it.
C1_CursorNonDecreasing ==
    [][(cursor # Nil /\ ~wrapped') => cursor' >= cursor]_vars

\* C3: no burn is handed to resolver.SubmitTx in more than one successfully
\* completed round.
C3_NoBurnProcessedTwice ==
    ~wrapped => \A b \in BurnBlocks : handed[b] <= 1

\* C4: once the watcher has completed a round, the store holds exactly one
\* row for every (decodable) burn of the ranges it has covered, at or below
\* the cursor.
C4_ExactlyOneRowPerBurn ==
    (wpc = "idle" /\ wresult = "ok" /\ ~wrapped) =>
        \A b \in covered \ UndecodableBurns :
            b <= cursor => Len(store[BurnHash(b)]) = 1

\* C5: whenever a round requests a range from the fetcher, the upper bound
\* is at most H - confidenceInterval.
C5_TargetWithinConfidence ==
    wresult \in {"running", "fetchErr", "logErr", "ok", "setErr"} =>
        wcur <= whead - confidenceInterval

\* C6: when a round has written the new cursor, every burn event of the
\* range it requested was ingested (SubmitTx answered without error).
C6_CursorOnlyAfterIngestion ==
    (wresult = "ok" /\ ~wrapped) => wrange \subseteq wingested

\* C7: a round that ends on an error of FetchBurnLogs or on an error result
\* of the channel leaves under the key the value L it read at its start.
C7_ErrorLeavesCursor ==
    wresult \in {"fetchErr", "logErr"} => cursor = wlast

\* C7 witness: a round that requested a range holding burns ended on an
\* error result, after an event had been handed to the resolver.
C7_Witness ==
    /\ wresult = "logErr"
    /\ wpc = "idle"
    /\ whanded # {}
    /\ cursor = wlast

\* A round has requested a range from the BurnLogFetcher.
Fetched == wresult \in {"running", "fetchErr", "logErr", "ok", "setErr"}

\* C24: a round that fetches requests exactly the blocks (L, T] with
\* T = min(H, L + maxBlockAdvance) - confidenceInterval: no event of block
\* L or below is in the requested range, and T is the cursor it writes.
C24_RangeExcludesCursor ==
    (Fetched /\ ~wrapped) =>
        /\ wcur = Min(whead, wlast + maxBlockAdvance) - confidenceInterval
        /\ \A b \in wrange : wlast < b /\ b <= wcur
        /\ wresult = "ok" => cursor = wcur

\* A round starts: watchLogShiftOuts is called.
RoundStarts == wpc = "idle" /\ rounds' = rounds + 1

C25_OldRoundDoesNothingStep ==
    (RoundStarts /\ cursor # Nil /\ wresult' \notin {"headErr", "lastErr"}
       /\ whead' <= wlast') =>
        /\ wresult' = "old"
        /\ wpc' = "idle"
        /\ fpc' = "off"
        /\ cursor' = cursor
        /\ hashMap' = hashMap
        /\ handed' = handed
        /\ reqs' = reqs /\ chan' = chan

\* C25: a round that reads a head H <= L, L being the cursor stored before
\* the round, ends at once: FetchBurnLogs is not called, nothing is handed
\* to the resolver, the cursor and the hash mappings stay as they are.
C25_OldRoundDoesNothing == [][C25_OldRoundDoesNothingStep]_vars

\* A round found the head at or below a cursor stored by an earlier round.
C25_Witness ==
    /\ wresult = "old"
    /\ whead > 0
    /\ whead <= wlast
    /\ cursor = wlast

\* ---- the txChecker (under SpecTxChecker)

HashOfReq(i) == TxHashOf(reqs[i].params)

\* Every request sent has been answered and the workers are idle.
AllAnswered ==
    /\ chan = <<>>
    /\ \A w \in Workers : tpc[w] = "idle"
    /\ \A i \in ReqIds : reqs[i] # NoReq => resp[i].kind # "none"

\* C2 as stated: when all requests are answered, InsertTx was called exactly
\* once for each hash that was verified, and exactly one row has that hash.
C2_InsertedExactlyOnce ==
    AllAnswered =>
        \A i \in verified :
            /\ insertCalls[HashOfReq(i)] = 1
            /\ Len(store[HashOfReq(i)]) = 1

\* C2 amended: lookup and insert are atomic, a worker about to call InsertTx
\* holds the mutex and the store has no row of its hash; so InsertTx succeeds
\* at most once per hash, at most one row per hash exists at any time, and
\* the row exists once a request for that hash has been answered with a
\* ResponseSubmitTx.
C2_AtMostOneRow ==
    /\ \A w \in Workers :
           tpc[w] = "insert" => mu = w /\ store[ttx[w].hash] = <<>>
    /\ \A h \in StoreKeys :
           /\ insertOk[h] <= 1
           /\ Len(store[h]) <= 1
           /\ (\E i \in ReqIds : resp[i].kind = "ok" /\ resp[i].tx.hash = h)
                  => Len(store[h]) = 1

\* C2 witness: a worker waits for the mutex while another one, holding it,
\* is about to insert a tx of the same hash.
C2_Witness ==
    \E w1, w2 \in Workers :
        /\ w1 # w2
        /\ tpc[w1] = "insert" /\ mu = w1
        /\ tpc[w2] = "lock"
        /\ ttx[w1].hash = ttx[w2].hash

\* C8 as stated: all requests that verify to the same hash are answered with
\* the same record.
C8_SameRecordForAll ==
    \A i, j \in verified :
        (/\ HashOfReq(i) = HashOfReq(j)
         /\ resp[i].kind # "none" /\ resp[j].kind # "none")
            => resp[i].kind = "ok" /\ resp[i] = resp[j]

\* C8 amended: every ResponseSubmitTx carries the record of the one row the
\* store holds for that hash, and InsertTx succeeded only once for it.
C8_CanonicalRecord ==
    \A i \in ReqIds :
        resp[i].kind = "ok" =>
            /\ Len(store[resp[i].tx.hash]) = 1
            /\ store[resp[i].tx.hash][1].tx = resp[i].tx
            /\ insertOk[resp[i].tx.hash] = 1

\* C8 witness: two requests of the same hash were both answered with a
\* record after a single InsertTx.
C8_Witness ==
    \E i, j \in ReqIds :
        /\ i # j
        /\ resp[i].kind = "ok" /\ resp[j].kind = "ok"
        /\ resp[i].tx.hash = resp[j].tx.hash
        /\ insertCalls[resp[i].tx.hash] = 1

\* C9: a request whose verify fails is answered with invalid-params and
\* causes no call of db.Tx or db.InsertTx.
C9_InvalidParamsNoStoreAccess ==
    \A i \in ReqIds :
        /\ resp[i].kind = "invalid-params" => dbLog[i] = 0 /\ i \notin verified
        /\ (reqs[i] # NoReq /\ ~reqs[i].params.valid) =>
               /\ dbLog[i] = 0
               /\ resp[i].kind \in {"none", "invalid-params"}

\* C9 witness: a request was answered with invalid-params while the store
\* holds a row inserted for another request.
C9_Witness ==
    /\ \E i \in ReqIds : resp[i].kind = "invalid-params"
    /\ \E h \in AllHashes : store[h] # <<>>

\* ---- the submitter (under SpecSubmitter)

\* The status graph: pending -> confirming -> confirmed -> submitted -> done,
\* pending -> rejected, submitted -> failed; UpdateStatus(submitted) may also
\* find the record already submitted.
AllowedTransitions ==
    {<<"pending", "confirming">>, <<"confirming", "confirmed">>,
     <<"confirmed", "submitted">>, <<"submitted", "done">>,
     <<"pending", "rejected">>, <<"submitted", "failed">>,
     <<"submitted", "submitted">>}

\* C10: every status change made in the store follows the graph; the
\* submitter's UpdateStatus(hash, submitted) finds the record in status
\* confirmed or submitted.
C10_StatusMonotone == transitions \subseteq AllowedTransitions

\* ---- the cacher (under SpecCacher)

\* The cacher has handled the request.
Handled(j) == cjoined[j] # NoCacheId \/ csrc[j] # "none"

\* C11 as stated: a request of a cacheable method handled within the TTL
\* after the next stage answered a request of the same fingerprint is not
\* forwarded and is answered with that answer.
C11_AnsweredFromCache ==
    \A j \in CacheIds :
        (Cacheable(creqs[j].method) /\ cbasis[j] # CNoResp) =>
            /\ cfwd[j] = NoFwd
            /\ cresp[j] # CNoResp => cresp[j] = cbasis[j]

\* C11 amended: a request of a cacheable method handled while the cache
\* holds a response under its fingerprint that is within the TTL is
\* answered with that response, whatever its id, and is not forwarded; the
\* response is an answer the next stage gave for that fingerprint.
C11_HitNotForwarded ==
    \A j \in CacheIds :
        (Cacheable(creqs[j].method) /\ csnap[j] # CNoResp) =>
            /\ cfwd[j] = NoFwd
            /\ csrc[j] = "cache"
            /\ cresp[j] = csnap[j]
            /\ \E i \in CacheIds :
                  /\ cdown[i] = csnap[j]
                  /\ Fingerprint(creqs[i]) = Fingerprint(creqs[j])

\* C11 witness: a request was answered from the cache with the error
\* response the next stage gave to a request of another id.
C11_Witness ==
    \E j \in CacheIds :
        /\ csrc[j] = "cache"
        /\ cresp[j].kind = "error"
        /\ cresp[j].id # creqs[j].id

\* C12 as stated: a request of any method handled while the cache holds no
\* response for it is forwarded unchanged with a responder, gets nothing
\* before the next stage answers, and the answer is written into the cache
\* before it is delivered.
C12_MissForwardedAndWritten ==
    \A j \in CacheIds :
        (Handled(j) /\ csnap[j] = CNoResp) =>
            /\ cfwd[j] = [req |-> creqs[j], responder |-> j]
            /\ cresp[j] # CNoResp => cdown[j] # CNoResp /\ cwrote[j]

\* C12 amended: a request handled while the cache holds no response for it
\* is forwarded unchanged with a responder, unless its method is cacheable
\* and a call for its fingerprint is in flight, which it joins; it gets
\* nothing before the next stage answers that call, and for a cacheable
\* method the answer is written into the cache before it is delivered.
C12_MissForwardedOrJoined ==
    \A j \in CacheIds :
        (Handled(j) /\ csnap[j] = CNoResp) =>
            /\ \/ cfwd[j] = [req |-> creqs[j], responder |-> j]
               \/ /\ Cacheable(creqs[j].method)
                  /\ cfwd[j] = NoFwd
                  /\ cjoined[j] \notin {NoCacheId, j}
                  /\ cfwd[cjoined[j]].req.method = creqs[j].method
                  /\ cfwd[cjoined[j]].req.params = creqs[j].params
            /\ cresp[j] # CNoResp =>
                  /\ csrc[j] = "downstream"
                  /\ cdown[cjoined[j]] # CNoResp
                  /\ cresp[j] = cdown[cjoined[j]]
                  /\ cwrote[cjoined[j]] = Cacheable(creqs[j].method)

\* C12 witness: a forwarded request of a cacheable method got the answer of
\* the next stage after it was written into the cache.
C12_Witness ==
    \E j \in CacheIds :
        /\ Cacheable(creqs[j].method)
        /\ cfwd[j] = [req |-> creqs[j], responder |-> j]
        /\ csrc[j] = "downstream"
        /\ cwrote[j]

\* C13: every submitTx and queryTx request the cacher has handled was
\* forwarded, its response is the answer the next stage gave to it, and the
\* cache never holds or serves a response for these methods.
C13_NeverFromCache ==
    \A j \in CacheIds :
        creqs[j].method \in {"submitTx", "queryTx"} =>
            /\ csrc[j] # "cache"
            /\ cdata[Fingerprint(creqs[j])] = NoEntry
            /\ Handled(j) => cfwd[j] = [req |-> creqs[j], responder |-> j]
            /\ cresp[j] # CNoResp =>
                  /\ cresp[j] = cdown[j]
                  /\ cresp[j].id = creqs[j].id

\* C13 witness: two identical submitTx requests were both answered by the
\* next stage.
C13_Witness ==
    \E i, j \in CacheIds :
        /\ i < j
        /\ creqs[i].method = "submitTx"
        /\ creqs[j] = [creqs[i] EXCEPT !.id = j]
        /\ csrc[i] = "downstream" /\ csrc[j] = "downstream"
        /\ ccall[i] = "done" /\ ccall[j] = "done"

\* C14: for a cacheable method at most one forwarded request per fingerprint
\* is unanswered; a request that joined a call in flight is not forwarded
\* and is answered with the answer of that call.
C14_OneCallPerFingerprint ==
    /\ \A i, k \in CacheIds :
          (/\ i # k
           /\ Cacheable(creqs[i].method)
           /\ Fingerprint(creqs[i]) = Fingerprint(creqs[k])
           /\ InFlight(i))
              => ~InFlight(k)
    /\ \A j \in CacheIds :
          (Cacheable(creqs[j].method) /\ cjoined[j] \notin {NoCacheId, j}) =>
              /\ cfwd[j] = NoFwd
              /\ cresp[j] # CNoResp => cresp[j] = cdown[cjoined[j]]

\* C14 witness: a request that missed the cache while a call for its
\* fingerprint was in flight got the answer of that call.
C14_Witness ==
    \E j \in CacheIds :
        /\ cjoined[j] \notin {NoCacheId, j}
        /\ cresp[j] # CNoResp
        /\ cresp[j] = cdown[cjoined[j]]

\* ---- the dispatcher (under SpecDispatcher)

C20_DispatcherNeverHalts == dpc # "panicked"

\* Handle was called with request i and is over: it returned or panicked.
HandleOver(i) ==
    /\ i <= dsent
    /\ \A k \in 1 .. Len(dinbox) : dinbox[k] # i
    /\ dcur # i \/ dpc = "panicked"

\* C27: every request Handle was called with has got its response on its
\* responder once Handle is over.
C27_OneResponsePerRequest ==
    \A i \in DispIds : HandleOver(i) => dresp[i] # DNoResp

\* ---- params (under SpecParams)

\* The tx's method declares k inputs followed by the auto-appended ones.
StandardLayout(tx) ==
    /\ Len(tx.inputs) >= 3
    /\ SubSeq(tx.inputs, Len(tx.inputs) - 2, Len(tx.inputs)) = AutoInputs
    /\ \A i \in 1 .. Len(tx.inputs) - 3 : tx.inputs[i] \in UserNames

\* The list [input_0, ..., input_(k-1), amount, nhash, signature].
ExpectedParams(tx) ==
    [i \in 1 .. Len(tx.inputs) - 3 |->
        <<"in", tx.inputs[i], tx.values[tx.inputs[i]]>>]
        \o << <<"amount", tx.amount>>, <<"nhash", tx.nhash>>,
              <<"sig", tx.r \o tx.s \o <<(tx.v[1] + 27) % 256>> >> >>

\* C16: for a tx whose method declares k inputs followed by `_amount`,
\* `_nHash`, `_sig`, params returns exactly the k inputs in declared order
\* followed by amount, nhash and the signature.
C16_ParamsList ==
    (ptx # NoPTx /\ StandardLayout(ptx)) =>
        pres = [kind |-> "ok", list |-> ExpectedParams(ptx)]

\* C26: removeInput returns, without panicking, the inputs whose name is
\* not among the names, in their original order.
C26_RemoveInputFilters ==
    ptx # NoPTx =>
        RemoveInput(ptx.inputs, AutoNames) =
            [panic |-> FALSE,
             inputs |-> SelectSeq(ptx.inputs, LAMBDA n : n \notin AutoNames)]

\* ---- the submitter's failures and its channel (under SpecSubmitter)

\* The first row of hash h is in status confirmed.
IsConfirmed(st, h) == st[h] # <<>> /\ st[h][1].status = "confirmed"

\* submitTx returns because building, signing or publishing failed.
PublishFails == spc = "build" /\ spc' = "idle"

\* queryTx reads the confirmed rows and starts a task for each of them.
PollReads ==
    /\ polls' = polls + 1
    /\ \E h \in AllHashes : ptasks'[h] # "none"

C17_StaysConfirmedStep ==
    PublishFails => IsConfirmed(store', scur.hash)

\* C17 as stated: after a failed submitTx the record is in status
\* confirmed.
C17_StaysConfirmed == [][C17_StaysConfirmedStep]_vars

C17_NoUpdateOnFailureStep ==
    /\ PublishFails =>
          /\ store' = store
          /\ transitions' = transitions
          /\ published' = published
    /\ PollReads =>
          \A h \in AllHashes : IsConfirmed(store, h) => ptasks'[h] = "query"

\* C17: a submitTx that fails in building, signing or publishing makes no
\* UpdateStatus call and leaves the store as it is, and a poll that reads
\* the store starts a task for every confirmed row.
C17_NoUpdateOnFailure == [][C17_NoUpdateOnFailureStep]_vars

\* A submitTx failed for a confirmed record and a later poll is querying
\* the record again.
C17_Witness ==
    \E f \in sfailed :
        /\ IsConfirmed(store, f[1])
        /\ polls > f[2]
        /\ ptasks[f[1]] = "query"

C18_NeverDiscardedStep ==
    \A h \in AllHashes :
        (ptasks[h] = "send" /\ ptasks'[h] = "none" /\ ~rootDone) =>
            stxs' = Append(stxs, [hash |-> h, poll |-> polls])

C18_DiscardedOnlyOnCtxDoneStep ==
    \A h \in AllHashes :
        (ptasks[h] = "send" /\ ptasks'[h] = "none") =>
            \/ stxs' = Append(stxs, [hash |-> h, poll |-> polls])
            \/ /\ pctxDone
               /\ stxs' = stxs
               /\ store' = store
               /\ IsConfirmed(store, h) =>
                     h \in TxsWithStatus(store', PolledStatus)

RunReturned == prun = "returned" /\ crun = "returned"

\* C19: once the root context is cancelled, Submitter.Run returns (unless
\* the process ended in a panic before).
C19_RunReturns == rootDone ~> (RunReturned \/ Panicked)

\* ---- the updater (under SpecUpdater)

ReadDone(g) == kop[g].op = "read" /\ kres[g].err # "none"

\* What a Read returns by the time passed since the last Write: not found
\* when there is none, expired when more than ttl seconds have passed.
ByElapsedTime(res, ttl) ==
    IF res.since = -1 THEN <<"notfound", NoVal>>
    ELSE IF ttl > 0 /\ res.since > ttl * TicksPerSecond
         THEN <<"expired", NoVal>>
         ELSE <<"nil", res.last>>

\* C22 as stated: a Read returns ErrDataExpired whenever more than ttl
\* seconds have passed since the last Write, ErrKeyNotFound for a key not
\* written or deleted, and the last written value otherwise.
C22_ReadByElapsedTime ==
    \A g \in Routines :
        ReadDone(g) =>
            <<kres[g].err, kres[g].val>> = ByElapsedTime(kres[g], kttl)

\* C22 amended: the age of a value is counted in whole seconds of the
\* clock. A Read returns ErrKeyNotFound for a key not written or deleted;
\* the last written value when at most ttl seconds have passed since the
\* Write or ttl <= 0; ErrDataExpired when ttl > 0 and at least ttl + 1
\* seconds have passed; one of the two in between.
C22_ReadByWholeSeconds ==
    \A g \in Routines :
        ReadDone(g) =>
            LET res == kres[g]
                value == res.err = "nil" /\ res.val = res.last
            IN /\ res.since = -1 => res.err = "notfound"
               /\ (res.since >= 0 /\ kttl <= 0) => value
               /\ (res.since >= 0 /\ kttl > 0) =>
                     /\ res.since <= kttl * TicksPerSecond => value
                     /\ res.since >= (kttl + 1) * TicksPerSecond =>
                           res.err = "expired"
                     /\ value \/ res.err = "expired"

\* A Read returned the value more than ttl seconds after its Write.
C22_Witness ==
    \E g \in Routines :
        /\ ReadDone(g)
        /\ kttl > 0
        /\ kres[g].since > kttl * TicksPerSecond
        /\ kres[g].err = "nil"

\* Goroutine g is between the return of its Lock or RLock and its unlock.
InCall(g) == kpc[g] \in {"first", "second", "unlock"}

\* C23: every access to the maps is made holding the lock, writers alone
\* and readers without a writer; a Read that found the key in lastSeen
\* finds it in data, and outside a writer's call a key is in both maps or
\* in none (with timeToLive > 0).
C23_MapsUnderLock ==
    /\ \A g \in Routines :
          InCall(g) =>
              IF kop[g].op \in WriteOps
              THEN kmu.writer = g /\ kmu.readers = {}
              ELSE g \in kmu.readers /\ kmu.writer = NoRoutine
    /\ \A g \in Routines :
          (ReadDone(g) /\ kres[g].sawLast = "present"
             /\ kres[g].sawData # "unread") => kres[g].sawData = "present"
    /\ (kttl > 0 /\ kmu.writer = NoRoutine) =>
          \A k \in KvKeys : (kdata[k] = NoData) <=> (klast[k] = NoTime)

\* A writer is between its two map updates while a Read of the same key
\* waits for the lock.
C23_Witness ==
    \E g, h \in Routines :
        /\ kttl > 0
        /\ kpc[g] = "second" /\ kop[g].op \in WriteOps
        /\ kpc[h] = "lock" /\ kop[h].op = "read"
        /\ kop[h].key = kop[g].key

\* C30: Entries() counts and Iterator() yields only the keys whose data a
\* Read at that time would still return, not the expired ones.
C30_NoExpiredEntryVisible ==
    \A g \in Routines :
        /\ (kop[g].op = "entries" /\ kres[g].err = "nil") =>
              kres[g].n = Cardinality(kres[g].fresh)
        /\ (kop[g].op = "iterator" /\ kres[g].err = "nil") =>
              kres[g].keys = kres[g].fresh

\* ---- the workers of the txChecker (under SpecTxCheckerRun)

\* The requests the clients have sent.
SentReqs == {i \in 1 .. MaxRequests : reqs[i] # NoReq}

\* How many times request i is in the requests channel.
InChan(i) == Cardinality({k \in 1 .. Len(chan) : chan[k] = i})

\* The workers that hold request i.
Holders(i) == {w \in Workers : treq[w] = i}

\* Run has returned: every worker has.
RunReturned_TxChecker == \A w \in Workers : tpc[w] = "returned"

\* C28: a request is in the channel, or held by exactly one worker, or
\* answered, and never two of these, so it is taken once and answered once,
\* with an invalid-params error, an internal error or a ResponseSubmitTx;
\* when Run has returned every request is answered; and once the channel is
\* closed Run returns.
C28_OneWorkerOneResponse ==
    /\ [](\A i \in SentReqs :
            /\ InChan(i) + Cardinality(Holders(i))
                 + (IF resp[i].kind # "none" THEN 1 ELSE 0) = 1
            /\ resp[i].kind \in {"none", "invalid-params", "internal", "ok"})
    /\ [](RunReturned_TxChecker =>
            chan = <<>> /\ \A i \in SentReqs : resp[i].kind # "none")
    /\ tclosed ~> RunReturned_TxChecker

\* Run has returned after two requests were answered.
C28_Witness ==
    /\ RunReturned_TxChecker
    /\ Cardinality(SentReqs) = RunRequests
    /\ \A i \in SentReqs : resp[i].kind # "none"

\* ---- the error kinds of the txChecker (under SpecTxChecker)

\* The store holds a row with this record.
InStore(st, tx) ==
    /\ tx.hash \in DOMAIN st
    /\ \E k \in 1 .. Len(st[tx.hash]) : st[tx.hash][k].tx = tx

\* Worker w answers its request in this step.
Answers(w) == treq[w] # -1 /\ resp'[treq[w]] # resp[treq[w]]

C29_ErrorKindsStep ==
    \A w \in Workers :
        Answers(w) =>
            /\ (tpc[w] = "respond" /\ tret[w].err # "nil")
                   => resp'[treq[w]] = ErrResp("internal")
            /\ tpc[w] = "verify"
                   => resp'[treq[w]] = ErrResp("invalid-params")
            /\ resp'[treq[w]].kind = "ok"
                   => /\ tpc[w] = "respond" /\ tret[w].err = "nil"
                      /\ InStore(store', resp'[treq[w]].tx)

\* C29: an error of checkDuplicate (db.Tx failing otherwise than with
\* not-found, or InsertTx failing) is answered with the internal error code
\* and never with a ResponseSubmitTx, a verification failure with
\* invalid-params, and a ResponseSubmitTx carries a record of the store;
\* checkDuplicate returns without error only with a record of the store.
C29_ErrorKinds ==
    /\ [][C29_ErrorKindsStep]_vars
    /\ [](\A w \in Workers :
             (tpc[w] = "respond" /\ tret[w].err = "nil")
                 => InStore(store, tret[w].tx))

\* One request was answered with the internal error code after the store
\* failed, one with invalid-params, and one with a record of the store.
C29_Witness ==
    /\ \E i \in 1 .. MaxRequests :
          resp[i] = ErrResp("internal") /\ dbLog[i] > 0
    /\ \E i \in 1 .. MaxRequests :
          resp[i] = ErrResp("invalid-params") /\ dbLog[i] = 0
    /\ \E i \in 1 .. MaxRequests :
          resp[i].kind = "ok" /\ InStore(store, resp[i].tx)

\* ---- one broadcast per confirmed tx (under SpecSubmitter)

\* C31: a confirmed tx is broadcast on the host chain (PublishSignedTx
\* succeeds for it) at most once, whatever the interleaving of the poll
\* loop and the consumer.
C31_BroadcastAtMostOnce == \A h \in AllHashes : published[h] <= 1

\* ---- the goroutine of FetchBurnLogs (under Spec)

\* C32: with a context that is not cancelled, the goroutine of FetchBurnLogs
\* goes on to the next event, or to the close of the channel, after a reader
\* has received an event: it is never waiting for the context to be done, and
\* a channel closed under a live context has delivered every event (rounds
\* whose target wrapped around are left aside).
C32_DeliveryDoesNotWaitForCtx ==
    ~wrapped =>
        /\ ~(fpc = "waitctx" /\ ~ctxDone)
        /\ (fpc = "closed" /\ ~ctxDone) => fiter = <<>>

\* C33: the goroutine of FetchBurnLogs is never left sending on the result
\* channel after the watcher has returned from the round, so it always gets
\* to close(resultChan) (rounds whose target wrapped around are left aside).
C33_NeverBlockedOnSend ==
    ~wrapped => ~(wpc = "idle" /\ fpc \in {"sendev", "senderr", "senderr2"})

\* ---- the goroutines of Handle (under SpecDispatcherGo)

\* Handle has sent the response of request i and returned.
HandleReturned(i) == dresp[i] # DNoResp

\* C34: a peer call that has its response never finds the responses channel
\* full, and once Handle has returned the goroutine it started closes the
\* responses channel.
C34_GoroutinesFinish ==
    /\ []((\E a \in AddrKeys : dcalls[a] = "calling")
             => CanSend(dchan, ResponsesCap(Contacted)))
    /\ \A i \in DispIds : HandleReturned(i) ~> dopen[i] = "closed"

\* Handle has returned twice: the channel of the first call is closed, that
\* of the second call not yet.
C34_Witness ==
    \E i, j \in DispIds :
        /\ HandleReturned(i) /\ dopen[i] = "closed"
        /\ HandleReturned(j) /\ dopen[j] = "open"

\* ---- SigFromRSV (under SpecParams)

\* C35: SigFromRSV leaves the r, s and v of the tx as they were, so a second
\* call on the tx returns the signature the first call returned.
C35_SigFromRSVRepeatable ==
    ptx # NoPTx =>
        /\ ptxAfter.r = ptx.r /\ ptxAfter.s = ptx.s /\ ptxAfter.v = ptx.v
        /\ SigFromRSV(ptxAfter.r, ptxAfter.s, ptxAfter.v)
               = SigFromRSV(ptx.r, ptx.s, ptx.v)

====
